---- MODULE Spec2Model ----
(***************************************************************************)
(* KubeSim control plane (src/app.py) and worker agent                     *)
(* (src/node_manager.py).                                                  *)
(*                                                                         *)
(* Node ids "node_<N>" are modelled by the number N, pod ids by small      *)
(* numbers.  A Python dict is a sequence of [k, v] entries in insertion    *)
(* order, so that iteration order, stable sorting and first-match lookups  *)
(* behave as in the source.                                                *)
(***************************************************************************)
EXTENDS Integers, Sequences, FiniteSets, TLC

\* ------------------------------------------------------------------ bounds
MaxNodes == 2
MaxPods == 2
MaxCpu == 3
MaxCores == 3

\* ------------------------------------------------------- program constants
\* config.json: DEFAULT_NODE_CAPACITY (the value configured for the model;
\* app.py falls back to 4 when the key is absent)
DEFAULT_NODE_CAPACITY == 2
max_attempts == 3

NodeIds == 1..MaxNodes
PodIds == 1..MaxPods
\* cpu values a LaunchPod request may carry (0 is the invalid one)
CpuInputs == 0..MaxCpu
\* cores values an AddNode request may carry; NoCores is "cores omitted"
NoCores == -1
\* add_node called by a thread that handles no request: request.json raises
NoRequest == -2
CoresInputs == {NoCores, 0, MaxCores}
Algos == {"first-fit", "best-fit", "worst-fit"}
None == 0

\* ------------------------------------------------------------ Python dicts
EmptyDict == << >>

DictKeys(d) == {d[i].k : i \in DOMAIN d}

DictHas(d, key) == \E i \in DOMAIN d : d[i].k = key

DictGet(d, key) == d[CHOOSE i \in DOMAIN d : d[i].k = key].v

\* d.get(key, default)
DictGetOr(d, key, default) == IF DictHas(d, key) THEN DictGet(d, key) ELSE default

\* d[key] = val : an existing key keeps its position, a new key goes last
DictSet(d, key, val) ==
    IF DictHas(d, key)
    THEN [i \in DOMAIN d |-> IF d[i].k = key THEN [k |-> key, v |-> val] ELSE d[i]]
    ELSE Append(d, [k |-> key, v |-> val])

\* del d[key]
DictDel(d, key) == SelectSeq(d, LAMBDA e : e.k # key)

RECURSIVE SeqSum(_)
SeqSum(s) == IF s = << >> THEN 0 ELSE Head(s) + SeqSum(Tail(s))

\* sorted(items, key=lambda x: cpu_request): Python's sort is stable, so the
\* entries of equal cpu_request keep their dict order (insertion sort here)
RECURSIVE InsertByCpu(_, _)
InsertByCpu(s, e) ==
    IF s = << >> THEN << e >>
    ELSE IF e.cpu_request < Head(s).cpu_request THEN << e >> \o s
    ELSE << Head(s) >> \o InsertByCpu(Tail(s), e)

RECURSIVE SortedByCpu(_)
SortedByCpu(s) ==
    IF s = << >> THEN << >>
    ELSE InsertByCpu(SortedByCpu(SubSeq(s, 1, Len(s) - 1)), s[Len(s)])

\* the node ids of a set in ascending numeric suffix
RECURSIVE AscendingIds(_)
AscendingIds(S) ==
    IF S = {} THEN << >>
    ELSE LET m == CHOOSE x \in S : \A y \in S : x <= y
         IN << m >> \o AscendingIds(S \ {m})

\* -------------------------------------------------------------- scheduling
\* sum(pod.get("cpu_request", 0) for pod in node_pods.values())
RequestSum(node_pods) == SeqSum([i \in DOMAIN node_pods |-> node_pods[i].v.cpu_request])

\* the node_allocations dict every handler builds from nodes and cached_status
NodeAllocations(nodeDict, status) ==
    [i \in DOMAIN nodeDict |->
        LET node_capacity == nodeDict[i].v.capacity
            total_cpu_requests == RequestSum(DictGetOr(status, nodeDict[i].k, EmptyDict))
        IN [k |-> nodeDict[i].k,
            v |-> [allocated |-> total_cpu_requests,
                   capacity |-> node_capacity,
                   available |-> node_capacity - total_cpu_requests]]]

\* first-fit taking the last entry with enough available
FirstFitLastEntry(cpu_request, alloc) ==
    LET fits == {i \in DOMAIN alloc : alloc[i].v.available >= cpu_request}
    IN IF fits = {} THEN None
       ELSE alloc[CHOOSE i \in fits : \A j \in fits : j <= i].k

\* first-fit: the first entry, in dict order, with enough available
FirstFit(cpu_request, alloc) ==
    LET fits == {i \in DOMAIN alloc : alloc[i].v.available >= cpu_request}
    IN IF fits = {} THEN None
       ELSE alloc[CHOOSE i \in fits : \A j \in fits : i <= j].k

\* best-fit, first pass: over ascending ids, keep the first strictly smaller remaining
RECURSIVE BestFitPass(_, _, _, _, _)
BestFitPass(ids, cpu_request, alloc, best_fit, smallest_remaining) ==
    IF ids = << >> THEN [best_fit |-> best_fit, smallest_remaining |-> smallest_remaining]
    ELSE LET available == DictGet(alloc, Head(ids)).available
             remaining == available - cpu_request
         IN IF available >= cpu_request
               /\ (best_fit = None \/ remaining < smallest_remaining)
            THEN BestFitPass(Tail(ids), cpu_request, alloc, Head(ids), remaining)
            ELSE BestFitPass(Tail(ids), cpu_request, alloc, best_fit, smallest_remaining)

\* max(seq, key=capacity): the first element of the highest capacity
MaxByCapacity(seq, alloc) ==
    LET cap(i) == DictGet(alloc, seq[i]).capacity
        top == CHOOSE i \in DOMAIN seq :
                  /\ \A j \in DOMAIN seq : cap(j) <= cap(i)
                  /\ \A j \in DOMAIN seq : cap(j) = cap(i) => i <= j
    IN seq[top]

\* best-fit without the tie-break: the first node of least remaining
BestFitFirstPassOnly(cpu_request, alloc) ==
    BestFitPass(AscendingIds(DictKeys(alloc)), cpu_request, alloc, None, 0).best_fit

BestFit(cpu_request, alloc) ==
    LET node_ids == AscendingIds(DictKeys(alloc))
        pass == BestFitPass(node_ids, cpu_request, alloc, None, 0)
        best_fit == pass.best_fit
        tied_nodes == SelectSeq(node_ids, LAMBDA n :
                         /\ n # best_fit
                         /\ DictGet(alloc, n).available >= cpu_request
                         /\ DictGet(alloc, n).available - cpu_request = pass.smallest_remaining)
        highest_capacity_node == MaxByCapacity(<< best_fit >> \o tied_nodes, alloc)
    IN IF best_fit = None THEN None
       ELSE IF tied_nodes = << >> THEN best_fit
       ELSE IF best_fit = 1 /\ \E i \in DOMAIN tied_nodes : tied_nodes[i] = 2 THEN 2
       ELSE highest_capacity_node

\* sorted(items, key=(available, -id), reverse=True): available descending,
\* then id ascending
RECURSIVE CapacitySorted(_, _)
CapacitySorted(S, alloc) ==
    IF S = {} THEN << >>
    ELSE LET av(n) == DictGet(alloc, n).available
             m == CHOOSE x \in S : \A y \in S : av(x) > av(y) \/ (av(x) = av(y) /\ x <= y)
         IN << m >> \o CapacitySorted(S \ {m}, alloc)

\* worst-fit loop over the capacity-sorted nodes
RECURSIVE WorstFitPass(_, _, _, _, _)
WorstFitPass(ids, cpu_request, alloc, worst_fit, largest_remaining) ==
    IF ids = << >> THEN worst_fit
    ELSE LET available == DictGet(alloc, Head(ids)).available
             remaining == available - cpu_request
         IN IF available >= cpu_request /\ remaining > largest_remaining
            THEN WorstFitPass(Tail(ids), cpu_request, alloc, Head(ids), remaining)
            ELSE IF /\ available >= cpu_request
                    /\ remaining = largest_remaining
                    /\ worst_fit # None
                    /\ Head(ids) < worst_fit
            THEN WorstFitPass(Tail(ids), cpu_request, alloc, Head(ids), largest_remaining)
            ELSE WorstFitPass(Tail(ids), cpu_request, alloc, worst_fit, largest_remaining)

\* worst-fit settling a tie by the highest id
WorstFitHighestId(cpu_request, alloc) ==
    LET fits == {i \in DOMAIN alloc : alloc[i].v.available >= cpu_request}
        most == {i \in fits : \A j \in fits : alloc[j].v.available <= alloc[i].v.available}
    IN IF fits = {} THEN None
       ELSE alloc[CHOOSE i \in most : \A j \in most : alloc[j].k <= alloc[i].k].k

WorstFit(cpu_request, alloc) ==
    WorstFitPass(CapacitySorted(DictKeys(alloc), alloc), cpu_request, alloc, None, -1)

\* find_node_for_pod taking the first node that fits under every algorithm
find_node_first_fit(algo, cpu_request, alloc) == FirstFit(cpu_request, alloc)

find_node_for_pod(algo, cpu_request, alloc) ==
    CASE algo = "first-fit" -> FirstFit(cpu_request, alloc)
      [] algo = "best-fit" -> BestFit(cpu_request, alloc)
      [] algo = "worst-fit" -> WorstFit(cpu_request, alloc)

\* the can_fit pre-check of remove_node and check_pending_pods
\* CanFit with > for >=
CanFitStrict(cpu_request, alloc) ==
    \E i \in DOMAIN alloc : alloc[i].v.available > cpu_request

CanFit(cpu_request, alloc) == \E i \in DOMAIN alloc : alloc[i].v.available >= cpu_request

\* ------------------------------------------------------------------- state
VARIABLES
    AUTO_SCALE,         \* config.json: AUTO_SCALE
    SCHEDULING_ALGO,    \* config.json: SCHEDULING_ALGO
    nodes,              \* dict node_id -> [capacity, pod_health]
    cached_status,      \* dict node_id -> dict pod_id -> [cpu_request, cpu_usage, healthy]
    pending_pods,       \* dict pod_id -> [cpu_request, origin_node]
    node_counter,
    workers,            \* running worker containers: node_id -> [capacity, pods]
    held,               \* locks held by threads that block forever or stand in a locked region
    inflight,           \* per thread: where it stands in its handler, and its locals
    last,               \* the last request handled and its response
    now                 \* time.time() of the control plane, in seconds

vars == << AUTO_SCALE, SCHEDULING_ALGO, nodes, cached_status, pending_pods,
           node_counter, workers, held, inflight, last, now >>

\* The mutable state handed through a handler.  config is read only.
World ==
    [auto_scale |-> AUTO_SCALE, algo |-> SCHEDULING_ALGO, nodes |-> nodes,
     cached_status |-> cached_status, pending_pods |-> pending_pods,
     node_counter |-> node_counter, workers |-> workers, held |-> held, now |-> now]

Locked(W, lock) == lock \in W.held

\* ------------------------------------------------------------------ worker
\* pods of a worker: a function pod_id -> cpu_request over the hosted pods
NoPods == [p \in {} |-> 0]

RECURSIVE FnSum(_)
FnSum(f) ==
    IF DOMAIN f = {} THEN 0
    ELSE LET x == CHOOSE y \in DOMAIN f : TRUE
         IN f[x] + FnSum([z \in DOMAIN f \ {x} |-> f[z]])

\* node_manager.add_pod, capacity check: TRUE when the pod is accepted
WorkerAccepts(worker, cpu_request) ==
    FnSum(worker.pods) + cpu_request <= worker.capacity

\* node_manager.add_pod, record the pod: pods[pod_id] = {...}
WorkerRecord(worker, pod_id, cpu_request) ==
    [worker EXCEPT !.pods =
        [p \in DOMAIN worker.pods \cup {pod_id} |->
            IF p = pod_id THEN cpu_request ELSE worker.pods[p]]]

\* node_manager.delete_pod
WorkerDelete(worker, pod_id) ==
    [worker EXCEPT !.pods = [p \in DOMAIN worker.pods \ {pod_id} |-> worker.pods[p]]]

\* ------------------------------------------------- placement on a worker
\* cached_status[target_node][pod_id] = {cpu_request, cpu_usage: 0, healthy: True}
RecordPlacement(status, target_node, pod_id, cpu_request) ==
    LET node_pods == DictGetOr(status, target_node, EmptyDict)
    IN DictSet(status, target_node,
               DictSet(node_pods, pod_id,
                       [cpu_request |-> cpu_request, cpu_usage |-> 0, healthy |-> TRUE]))

\* PlaceOnNode recording the pod before the attempts and keeping the record
\* when they all fail
PlaceOnNodeKeepingRecord(W, target_node, pod_id, cpu_request, fails) ==
    IF ~DictHas(W.nodes, target_node) \/ target_node \notin DOMAIN W.workers
    THEN [W |-> W, code |-> "400", attempts |-> 0]
    ELSE IF fails >= max_attempts \/ ~WorkerAccepts(W.workers[target_node], cpu_request)
    THEN [W |-> [W EXCEPT !.cached_status =
                     RecordPlacement(@, target_node, pod_id, cpu_request)],
          code |-> "500", attempts |-> max_attempts]
    ELSE [W |-> [W EXCEPT !.workers[target_node] =
                     WorkerRecord(@, pod_id, cpu_request),
                 !.cached_status =
                     RecordPlacement(@, target_node, pod_id, cpu_request)],
          code |-> "200", attempts |-> fails + 1]

\* The tail of launch_pod and reschedule_pod: the target check, up to
\* max_attempts POSTs of /add-pod, and the cached_status update on a 200.
\* fails is the number of leading attempts that do not reach the worker.
\* code: "200", "400" (node not found, worker refused), "500" (unreachable),
\* "hung" (the handler thread blocks forever on a lock)
PlaceOnNode(W, target_node, pod_id, cpu_request, fails) ==
    IF Locked(W, "nodes_lock")
    THEN [W |-> W, code |-> "hung", attempts |-> 0]
    ELSE IF ~DictHas(W.nodes, target_node)
    THEN [W |-> W, code |-> "400", attempts |-> 0]
    ELSE IF target_node \notin DOMAIN W.workers
    THEN [W |-> W, code |-> "500", attempts |-> 1]
    ELSE IF fails >= max_attempts
    THEN [W |-> W, code |-> "500", attempts |-> max_attempts]
    ELSE IF ~WorkerAccepts(W.workers[target_node], cpu_request)
    THEN [W |-> W, code |-> "400", attempts |-> max_attempts]
    ELSE IF Locked(W, "cached_status_lock")
    THEN [W |-> [W EXCEPT !.workers[target_node] =
                     WorkerRecord(@, pod_id, cpu_request)],
          code |-> "hung", attempts |-> fails + 1]
    ELSE [W |-> [W EXCEPT !.workers[target_node] =
                     WorkerRecord(@, pod_id, cpu_request),
                 !.cached_status =
                     RecordPlacement(@, target_node, pod_id, cpu_request)],
          code |-> "200", attempts |-> fails + 1]

\* ---------------------------------------------------------------- add_node
Hang(W, lock) == [W EXCEPT !.held = @ \cup {lock}]

\* add_node counting the node before it validates cores
AddNodeRegisterCountingFirst(W, cores, provision_ok, holds_nodes_lock) ==
    IF cores # NoCores /\ cores <= 0
    THEN [W |-> [W EXCEPT !.node_counter = @ + 1], code |-> "400", node_id |-> None]
    ELSE [W |-> [W EXCEPT !.node_counter = @ + 1,
                          !.nodes = DictSet(@, W.node_counter + 1,
                                            [capacity |-> DEFAULT_NODE_CAPACITY,
                                             pod_health |-> EmptyDict,
                                             last_heartbeat |-> W.now])],
          code |-> "200", node_id |-> W.node_counter + 1]

\* add_node naming the node after the lowest number no registered node has
AddNodeRegisterReusingIds(W, cores, provision_ok, holds_nodes_lock) ==
    LET capacity == IF cores = NoCores THEN DEFAULT_NODE_CAPACITY ELSE cores
        node_id == CHOOSE n \in 1..(Len(W.nodes) + 1) :
                      /\ ~DictHas(W.nodes, n)
                      /\ \A m \in 1..(n - 1) : DictHas(W.nodes, m)
        counted == [W EXCEPT !.node_counter = @ + 1]
    IN IF capacity <= 0 THEN [W |-> W, code |-> "400", node_id |-> None]
       ELSE IF ~provision_ok \/ holds_nodes_lock \/ Locked(W, "nodes_lock")
       THEN [W |-> counted, code |-> "500", node_id |-> None]
       ELSE [W |-> [counted EXCEPT
                       !.workers = [n \in DOMAIN W.workers \cup {node_id} |->
                                       IF n = node_id
                                       THEN [capacity |-> capacity, pods |-> NoPods]
                                       ELSE W.workers[n]],
                       !.nodes = DictSet(@, node_id, [capacity |-> capacity,
                                                      pod_health |-> EmptyDict,
                                                      last_heartbeat |-> W.now])],
             code |-> "200", node_id |-> node_id]

\* add_node up to and including the registration of the node.  cores is the
\* "cores" value of the request being handled (NoCores when it carries none),
\* provision_ok whether docker runs the container, holds_nodes_lock whether the
\* calling handler already holds nodes_lock (threading.Lock is not reentrant).
AddNodeRegister(W, cores, provision_ok, holds_nodes_lock) ==
    LET capacity == IF cores = NoCores THEN DEFAULT_NODE_CAPACITY ELSE cores
        node_id == W.node_counter + 1
        counted == [W EXCEPT !.node_counter = node_id]
        started == [counted EXCEPT !.workers =
                       [n \in DOMAIN W.workers \cup {node_id} |->
                           IF n = node_id THEN [capacity |-> capacity, pods |-> NoPods]
                           ELSE W.workers[n]]]
    IN IF cores = NoRequest
       THEN [W |-> W, code |-> "raised", node_id |-> None]
       ELSE IF capacity <= 0
       THEN [W |-> W, code |-> "400", node_id |-> None]
       ELSE IF ~provision_ok
       THEN [W |-> counted, code |-> "500", node_id |-> None]
       ELSE IF holds_nodes_lock
       THEN [W |-> Hang(started, "nodes_lock"), code |-> "hung", node_id |-> None]
       ELSE IF Locked(W, "nodes_lock")
       THEN [W |-> started, code |-> "hung", node_id |-> None]
       ELSE [W |-> [started EXCEPT !.nodes =
                       DictSet(@, node_id, [capacity |-> capacity, pod_health |-> EmptyDict,
                                            last_heartbeat |-> W.now])],
             code |-> "200", node_id |-> node_id]

\* ---------------------------------------------------------- reschedule_pod
\* what reschedule_pod returns: True, False, or never ("hung")
RescheduleAnswer(placed) ==
    [W |-> placed.W,
     code |-> CASE placed.code = "200" -> "true"
                [] placed.code = "hung" -> "hung"
                [] OTHER -> "false"]

AddNodeFailed(added) ==
    [W |-> added.W, code |-> IF added.code = "hung" THEN "hung" ELSE "false"]

\* from the scheduler's answer on: add a node when none fits and auto-scaling
\* is on (on_no_fit is what that add_node does), then place the pod
RescheduleOnTarget(W, found, pod_id, cpu_request, fails, on_no_fit) ==
    IF found # None
    THEN RescheduleAnswer(PlaceOnNode(W, found, pod_id, cpu_request, fails))
    ELSE IF ~W.auto_scale THEN [W |-> W, code |-> "false"]
    ELSE IF on_no_fit.code # "200" THEN AddNodeFailed(on_no_fit)
    ELSE RescheduleAnswer(PlaceOnNode(on_no_fit.W, on_no_fit.node_id, pod_id,
                                      cpu_request, fails))

\* on_empty is what add_node does when it is called with nodes_lock held
\* (no node registered)
ReschedulePodWith(W, pod_id, cpu_request, fails, on_empty, on_no_fit) ==
    IF Locked(W, "nodes_lock") THEN [W |-> W, code |-> "hung"]
    ELSE IF W.nodes = EmptyDict
    THEN IF W.auto_scale THEN AddNodeFailed(on_empty) ELSE [W |-> W, code |-> "false"]
    ELSE RescheduleOnTarget(
             W, find_node_for_pod(W.algo, cpu_request,
                                  NodeAllocations(W.nodes, W.cached_status)),
             pod_id, cpu_request, fails, on_no_fit)

\* add_node as called under check_pending_pods, which holds
\* pending_pods_lock: it registers the node and then blocks in its own
\* check_pending_pods
HangAfterRegister(reg) ==
    IF reg.code = "200" THEN [W |-> reg.W, code |-> "hung", node_id |-> None] ELSE reg

AddNodeInDrain(W, cores, provision_ok, holds_nodes_lock) ==
    HangAfterRegister(AddNodeRegister(W, cores, provision_ok, holds_nodes_lock))

ReschedulePodInDrain(W, pod_id, cpu_request, fails, cores, provision_ok) ==
    ReschedulePodWith(W, pod_id, cpu_request, fails,
                      AddNodeInDrain(W, cores, provision_ok, TRUE),
                      AddNodeInDrain(W, cores, provision_ok, FALSE))

\* the node the running totals are charged to: the first node of
\* cached_status, in dict order, that lists the pod
FirstNodeWithPod(status, pod_id) ==
    LET having == {i \in DOMAIN status : DictHas(status[i].v, pod_id)}
    IN IF having = {} THEN None
       ELSE status[CHOOSE i \in having : \A j \in having : i <= j].k

\* node_allocations[new_node]["allocated"] += cpu_request, ["available"] -= cpu_request
ChargeNode(alloc, new_node, a, cpu_request) ==
    DictSet(alloc, new_node,
            [a EXCEPT !.allocated = @ + cpu_request, !.available = @ - cpu_request])

ChargeAllocation(alloc, new_node, cpu_request) ==
    IF new_node # None /\ DictHas(alloc, new_node)
    THEN ChargeNode(alloc, new_node, DictGet(alloc, new_node), cpu_request)
    ELSE alloc

\* ------------------------------------------------------ check_pending_pods
\* pending_pods.items() as [pod_id, cpu_request] entries in dict order
PendingItems(pending) ==
    [i \in DOMAIN pending |-> [pod_id |-> pending[i].k, cpu_request |-> pending[i].v.cpu_request]]

RECURSIVE DictDelAll(_, _)
DictDelAll(d, keys) ==
    IF keys = << >> THEN d ELSE DictDelAll(DictDel(d, Head(keys)), Tail(keys))

\* the for loop over sorted_pending; fails[pod_id] is the number of leading
\* /add-pod attempts for that pod that do not reach the worker
RECURSIVE DrainLoop(_, _, _, _, _, _, _)

\* the body of the loop once reschedule_pod has answered (tried)
DrainStep(items, alloc, pods_to_remove, fails, cores, provision_ok, tried) ==
    IF tried.code = "hung"
    THEN [W |-> tried.W, pods_to_remove |-> pods_to_remove, code |-> "hung"]
    ELSE IF tried.code = "true"
    THEN DrainLoop(Tail(items), tried.W,
                   ChargeAllocation(alloc,
                                    FirstNodeWithPod(tried.W.cached_status, Head(items).pod_id),
                                    Head(items).cpu_request),
                   Append(pods_to_remove, Head(items).pod_id), fails, cores, provision_ok)
    ELSE DrainLoop(Tail(items), tried.W, alloc, pods_to_remove, fails, cores, provision_ok)

DrainLoop(items, W, alloc, pods_to_remove, fails, cores, provision_ok) ==
    IF items = << >> THEN [W |-> W, pods_to_remove |-> pods_to_remove, code |-> "done"]
    ELSE IF ~CanFit(Head(items).cpu_request, alloc)
    THEN DrainLoop(Tail(items), W, alloc, pods_to_remove, fails, cores, provision_ok)
    ELSE DrainStep(items, alloc, pods_to_remove, fails, cores, provision_ok,
                   ReschedulePodInDrain(W, Head(items).pod_id, Head(items).cpu_request,
                                        fails[Head(items).pod_id], cores, provision_ok))

\* after the loop: del pending_pods[pod_id] for the scheduled ones
DrainDone(loop) ==
    IF loop.code = "hung"
    THEN [W |-> Hang(loop.W, "pending_pods_lock"), code |-> "hung"]
    ELSE [W |-> [loop.W EXCEPT !.pending_pods = DictDelAll(@, loop.pods_to_remove)],
          code |-> "done"]

check_pending_pods(W, fails, cores, provision_ok) ==
    IF Locked(W, "pending_pods_lock") THEN [W |-> W, code |-> "hung"]
    ELSE IF W.pending_pods = EmptyDict THEN [W |-> W, code |-> "done"]
    ELSE IF Locked(W, "nodes_lock")
    THEN [W |-> Hang(W, "pending_pods_lock"), code |-> "hung"]
    ELSE DrainDone(DrainLoop(SortedByCpu(PendingItems(W.pending_pods)), W,
                             NodeAllocations(W.nodes, W.cached_status), << >>,
                             fails, cores, provision_ok))

\* add_node answering without draining the pending queue
AddNodeDrainSkipped(reg, fails, cores, provision_ok) == reg

\* add_node as a handler (or called from one that holds no lock): register
\* the node, then drain the pending queue
AddNodeAnswer(reg, drained) ==
    IF drained.code = "hung"
    THEN [W |-> drained.W, code |-> "hung", node_id |-> None]
    ELSE [W |-> drained.W, code |-> "200", node_id |-> reg.node_id]

AddNodeDrain(reg, fails, cores, provision_ok) ==
    IF reg.code # "200" THEN reg
    ELSE AddNodeAnswer(reg, check_pending_pods(reg.W, fails, cores, provision_ok))

add_node(W, cores, provision_ok, fails) ==
    AddNodeDrain(AddNodeRegister(W, cores, provision_ok, FALSE), fails, cores, provision_ok)

\* reschedule_pod as called by remove_node, which holds no lock
reschedule_pod(W, pod_id, cpu_request, fails, cores, provision_ok) ==
    ReschedulePodWith(W, pod_id, cpu_request, fails[pod_id],
                      AddNodeRegister(W, cores, provision_ok, TRUE),
                      add_node(W, cores, provision_ok, fails))

\* -------------------------------------------------------------- launch_pod
\* msg is the kind of the error message, attempts the number of /add-pod
\* requests made for the pod
Answer(W, code, msg, node_id, attempts) ==
    [W |-> W, code |-> code, msg |-> msg, node_id |-> node_id, attempts |-> attempts]

\* the response after the attempts on target_node
LaunchAnswer(placed, target_node) ==
    CASE placed.code = "200" -> Answer(placed.W, "200", "", target_node, placed.attempts)
      [] placed.code = "hung" -> Answer(placed.W, "hung", "", None, placed.attempts)
      [] placed.code = "400" /\ placed.attempts = 0 ->
            Answer(placed.W, "400", "Node not found", None, 0)
      [] placed.code = "400" /\ placed.attempts > 0 ->
            Answer(placed.W, "400", "Node error", None, placed.attempts)
      [] OTHER -> Answer(placed.W, "500", "Cannot reach node", None, placed.attempts)

\* no node fits and auto-scaling is on: added is what add_node answered
LaunchOnNewNode(added, pod_id, cpu, fails) ==
    IF added.code # "200" THEN Answer(added.W, added.code, "add_node", None, 0)
    ELSE LaunchAnswer(PlaceOnNode(added.W, added.node_id, pod_id, cpu, fails),
                      added.node_id)

\* LaunchOnTarget queueing the pod as pending when no node fits
LaunchOnTargetQueueing(W, found, pod_id, cpu, fails, provision_ok) ==
    IF found # None
    THEN LaunchAnswer(PlaceOnNode(W, found, pod_id, cpu, fails[pod_id]), found)
    ELSE Answer([W EXCEPT !.pending_pods =
                    DictSet(@, pod_id, [cpu_request |-> cpu, origin_node |-> None])],
                "400", "No node with sufficient capacity", None, 0)

LaunchOnTarget(W, found, pod_id, cpu, fails, provision_ok) ==
    IF found # None
    THEN LaunchAnswer(PlaceOnNode(W, found, pod_id, cpu, fails[pod_id]), found)
    ELSE IF ~W.auto_scale
    THEN Answer(W, "400", "No node with sufficient capacity", None, 0)
    ELSE LaunchOnNewNode(add_node(W, NoCores, provision_ok, fails), pod_id, cpu,
                         fails[pod_id])

\* no node is registered and auto-scaling is on: add_node runs with
\* nodes_lock held
LaunchOnEmpty(added) == Answer(added.W, added.code, "add_node", None, 0)

\* launch_pod refusing a pod_id that a node already records
launch_pod_refusing_recorded_id(W, pod_id, cpu, fails, provision_ok) ==
    IF \E i \in DOMAIN W.cached_status : DictHas(W.cached_status[i].v, pod_id)
    THEN Answer(W, "400", "Pod already exists", None, 0)
    ELSE LaunchOnTarget(W, find_node_for_pod(W.algo, cpu,
                                             NodeAllocations(W.nodes, W.cached_status)),
                        pod_id, cpu, fails, provision_ok)

\* The request context of launch_pod carries no "cores", so an add_node it
\* makes reads the default capacity.
launch_pod(W, pod_id, cpu, fails, provision_ok) ==
    IF cpu <= 0 THEN Answer(W, "400", "CPU request must be a positive integer", None, 0)
    ELSE IF Locked(W, "nodes_lock") THEN Answer(W, "hung", "", None, 0)
    ELSE IF W.nodes = EmptyDict
    THEN IF W.auto_scale
         THEN LaunchOnEmpty(AddNodeRegister(W, NoCores, provision_ok, TRUE))
         ELSE Answer(W, "400", "No nodes available", None, 0)
    ELSE LaunchOnTarget(W, find_node_for_pod(W.algo, cpu,
                                             NodeAllocations(W.nodes, W.cached_status)),
                        pod_id, cpu, fails, provision_ok)

\* ------------------------------------------------------------- remove_node
\* cached_status[node_id].items() as [pod_id, cpu_request] entries
PodItems(node_pods) ==
    [i \in DOMAIN node_pods |->
        [pod_id |-> node_pods[i].k, cpu_request |-> node_pods[i].v.cpu_request]]

PodsToReschedule(status, node_id) == PodItems(DictGetOr(status, node_id, EmptyDict))

\* pending_pods[pod_id] = {cpu_request, origin_node, timestamp}
Enqueue(pending, pod_id, cpu_request, origin_node) ==
    DictSet(pending, pod_id, [cpu_request |-> cpu_request, origin_node |-> origin_node])

RECURSIVE EnqueueAll(_, _, _)
EnqueueAll(pending, items, origin_node) ==
    IF items = << >> THEN pending
    ELSE EnqueueAll(Enqueue(pending, Head(items).pod_id, Head(items).cpu_request, origin_node),
                    Tail(items), origin_node)

\* max([data["available"] ...], default=0)
MaxAvailable(alloc) ==
    IF alloc = << >> THEN 0
    ELSE alloc[CHOOSE x \in DOMAIN alloc :
                  \A y \in DOMAIN alloc : alloc[y].v.available <= alloc[x].v.available
              ].v.available

Report(W, code, failed, rescheduled) ==
    [W |-> W, code |-> code, failed |-> failed, rescheduled |-> rescheduled]

\* the loop over sorted_pods: reschedule or enqueue each one
RECURSIVE RescheduleLoop(_, _, _, _, _, _, _, _, _)

\* the pod could not be rescheduled: failed_reschedules and the pending queue
RescheduleFailed(items, W, alloc, failed, rescheduled, node_id, fails, cores, provision_ok) ==
    IF Locked(W, "pending_pods_lock")
    THEN Report(W, "hung", Append(failed, Head(items)), rescheduled)
    ELSE RescheduleLoop(Tail(items),
                        [W EXCEPT !.pending_pods =
                            Enqueue(@, Head(items).pod_id, Head(items).cpu_request, node_id)],
                        alloc, Append(failed, Head(items)), rescheduled,
                        node_id, fails, cores, provision_ok)

\* the body of the loop once reschedule_pod has answered (tried)
RescheduleStep(items, alloc, failed, rescheduled, node_id, fails, cores, provision_ok, tried) ==
    IF tried.code = "hung" THEN Report(tried.W, "hung", failed, rescheduled)
    ELSE IF tried.code = "true"
    THEN RescheduleLoop(Tail(items), tried.W,
                        ChargeAllocation(alloc,
                                         FirstNodeWithPod(tried.W.cached_status,
                                                          Head(items).pod_id),
                                         Head(items).cpu_request),
                        failed, Append(rescheduled, Head(items)),
                        node_id, fails, cores, provision_ok)
    ELSE RescheduleFailed(items, tried.W, alloc, failed, rescheduled, node_id,
                          fails, cores, provision_ok)

RescheduleLoop(items, W, alloc, failed, rescheduled, node_id, fails, cores, provision_ok) ==
    IF items = << >> THEN Report(W, "done", failed, rescheduled)
    ELSE IF ~CanFit(Head(items).cpu_request, alloc)
    THEN RescheduleFailed(items, W, alloc, failed, rescheduled, node_id,
                          fails, cores, provision_ok)
    ELSE RescheduleStep(items, alloc, failed, rescheduled, node_id, fails, cores,
                        provision_ok,
                        reschedule_pod(W, Head(items).pod_id, Head(items).cpu_request,
                                       fails, cores, provision_ok))

\* first pass: the pods larger than max_available go to the pending queue,
\* the others are tried in ascending cpu_request
RemovePartition(removed, definite_failures, can_be_rescheduled, alloc, node_id, fails, cores, provision_ok) ==
    IF definite_failures # << >> /\ Locked(removed, "pending_pods_lock")
    THEN Report(removed, "hung", << >>, << >>)
    ELSE RescheduleLoop(SortedByCpu(can_be_rescheduled),
                        [removed EXCEPT !.pending_pods =
                            EnqueueAll(@, definite_failures, node_id)],
                        alloc, definite_failures, << >>, node_id, fails, cores,
                        provision_ok)

\* with the allocations of the remaining nodes
RemoveWithAllocations(removed, pods_to_reschedule, alloc, max_available, node_id, fails, cores, provision_ok) ==
    IF alloc = << >>
    THEN IF Locked(removed, "pending_pods_lock")
         THEN Report(removed, "hung", << >>, << >>)
         ELSE Report([removed EXCEPT !.pending_pods =
                         EnqueueAll(@, pods_to_reschedule, node_id)],
                     "done", pods_to_reschedule, << >>)
    ELSE RemovePartition(
             removed,
             SelectSeq(pods_to_reschedule, LAMBDA e : e.cpu_request > max_available),
             SelectSeq(pods_to_reschedule, LAMBDA e : ~(e.cpu_request > max_available)),
             alloc, node_id, fails, cores, provision_ok)

RemoveReschedule(removed, pods_to_reschedule, alloc, node_id, fails, cores, provision_ok) ==
    IF pods_to_reschedule = << >> THEN Report(removed, "done", << >>, << >>)
    ELSE RemoveWithAllocations(removed, pods_to_reschedule, alloc, MaxAvailable(alloc),
                               node_id, fails, cores, provision_ok)

\* Excise with the failure to stop the container ending the removal
ExciseUnlessStopFails(W, node_id, stop_ok) ==
    IF stop_ok
    THEN [W EXCEPT !.nodes = DictDel(@, node_id),
                   !.workers = [n \in DOMAIN @ \ {node_id} |-> @[n]],
                   !.cached_status = DictDel(@, node_id)]
    ELSE [W EXCEPT !.cached_status = DictDel(@, node_id)]

\* del nodes[node_id] and del cached_status[node_id].  The container is
\* stopped and removed first; when docker fails to, the failure is logged and
\* the container keeps running.
Excise(W, node_id, stop_ok) ==
    [W EXCEPT !.nodes = DictDel(@, node_id),
              !.workers = IF stop_ok /\ DictHas(W.nodes, node_id)
                          THEN [n \in DOMAIN @ \ {node_id} |-> @[n]]
                          ELSE @,
              !.cached_status = DictDel(@, node_id)]

RemoveExcised(removed, pods_to_reschedule, node_id, fails, cores, provision_ok) ==
    RemoveReschedule(removed, pods_to_reschedule,
                     NodeAllocations(removed.nodes, removed.cached_status),
                     node_id, fails, cores, provision_ok)

\* remove_node(node_id); stop_ok is whether docker stops the container.
\* cores is the "cores" of the request being handled (delete-node carries none).
remove_node(W, node_id, stop_ok, fails, cores, provision_ok) ==
    IF Locked(W, "cached_status_lock") \/ Locked(W, "nodes_lock")
    THEN Report(W, "hung", << >>, << >>)
    ELSE RemoveExcised(Excise(W, node_id, stop_ok),
                       PodsToReschedule(W.cached_status, node_id),
                       node_id, fails, cores, provision_ok)

\* ------------------------------------------------------------ the requests
\* per pod: every attempt reaches the worker (0) or none does (max_attempts)
FailCounts == [PodIds -> {0, max_attempts}]
NoFails == [p \in PodIds |-> 0]

NoReport == << >>

\* two request threads of the Flask server, and the poll_metrics thread
Handlers == {"handler_1", "handler_2"}
Idle == [pc |-> "idle"]
PollIdle == [pc |-> "idle", node_health_bound |-> FALSE, node_health |-> << >>]

Response(op, code, msg, node_id, pod_id, attempts, failed, rescheduled) ==
    [op |-> op, code |-> code, msg |-> msg, node_id |-> node_id, pod_id |-> pod_id,
     attempts |-> attempts, failed |-> failed, rescheduled |-> rescheduled]

Init ==
    /\ AUTO_SCALE \in BOOLEAN
    /\ SCHEDULING_ALGO \in Algos
    /\ nodes = EmptyDict
    /\ cached_status = EmptyDict
    /\ pending_pods = EmptyDict
    /\ node_counter = 0
    /\ workers = [n \in {} |-> 0]
    /\ held = {}
    /\ inflight = [t \in Handlers \cup {"poll"} |-> IF t = "poll" THEN PollIdle ELSE Idle]
    /\ last = Response("none", "", "", None, None, 0, NoReport, NoReport)
    /\ now = 0

\* commit the state a handler leaves behind; limit caps node_counter
Commit(W, limit) ==
    /\ W.node_counter <= limit
    /\ nodes' = W.nodes
    /\ cached_status' = W.cached_status
    /\ pending_pods' = W.pending_pods
    /\ node_counter' = W.node_counter
    /\ workers' = W.workers
    /\ held' = W.held
    /\ inflight' = inflight
    /\ UNCHANGED << now, AUTO_SCALE, SCHEDULING_ALGO >>

\* POST /add-node {cores}
AddNode(limit, cores, provision_ok, fails) ==
    LET r == add_node(World, cores, provision_ok, fails)
    IN /\ Commit(r.W, limit)
       /\ last' = Response("AddNode", r.code, "", r.node_id, None, 0, NoReport, NoReport)

\* POST /launch-pod {pod_id, cpu}
LaunchPod(limit, pod_id, cpu, fails, provision_ok) ==
    LET r == launch_pod(World, pod_id, cpu, fails, provision_ok)
    IN /\ Commit(r.W, limit)
       /\ last' = Response("LaunchPod", r.code, r.msg, r.node_id,
                           IF r.code = "200" THEN pod_id ELSE None,
                           r.attempts, NoReport, NoReport)

\* DELETE /delete-node {node_id}: delete_node answers 200 with the report of
\* remove_node, whatever remove_node found
DeleteNode(limit, node_id, stop_ok, fails, provision_ok) ==
    LET r == remove_node(World, node_id, stop_ok, fails, NoCores, provision_ok)
    IN /\ Commit(r.W, limit)
       /\ last' = Response("DeleteNode", IF r.code = "hung" THEN "hung" ELSE "200", "",
                           node_id, None, 0, r.failed, r.rescheduled)

\* The environment of one request: for which pods no /add-pod attempt reaches
\* the worker, whether docker provisions and whether it stops a container.
\* Only the choices the request can observe are drawn.
FailsAmong(Fails, pods) == {f \in Fails : \A p \in PodIds \ pods : f[p] = 0}

PendingIds == IF AUTO_SCALE THEN DictKeys(pending_pods) ELSE {}

PodsOn(node_id) == DictKeys(DictGetOr(cached_status, node_id, EmptyDict))

MayFail(Outcomes) == IF AUTO_SCALE THEN Outcomes ELSE {TRUE}

Requests(limit, Cores, Fails, Provisions, Stops) ==
    \/ \E cores \in Cores, provision_ok \in Provisions,
          fails \in FailsAmong(Fails, DictKeys(pending_pods)) :
          AddNode(limit, cores, provision_ok, fails)
    \/ \E pod_id \in PodIds, cpu \in CpuInputs, provision_ok \in MayFail(Provisions) :
          \E fails \in FailsAmong(Fails, {pod_id} \cup PendingIds) :
             LaunchPod(limit, pod_id, cpu, fails, provision_ok)
    \/ \E node_id \in 1..limit, provision_ok \in MayFail(Provisions) :
          \E stop_ok \in IF DictHas(nodes, node_id) THEN Stops ELSE {TRUE},
             fails \in FailsAmong(Fails, PodsOn(node_id) \cup PendingIds) :
             DeleteNode(limit, node_id, stop_ok, fails, provision_ok)

\* Every configuration, with docker and the workers answering
Next == Requests(MaxNodes, CoresInputs, {NoFails}, {TRUE}, {TRUE})

Spec == Init /\ [][Next]_vars

\* First-fit, with /add-pod requests that do not arrive and docker failing
InitFaults == Init /\ SCHEDULING_ALGO = "first-fit"

NextFaults == Requests(MaxNodes, CoresInputs, FailCounts, BOOLEAN, BOOLEAN)

SpecFaults == InitFaults /\ [][NextFaults]_vars

\* One more node id: nodes of the default capacity under first-fit with
\* auto-scaling off
InitWide == Init /\ ~AUTO_SCALE /\ SCHEDULING_ALGO = "first-fit"

NextWide == Requests(MaxNodes + 1, {NoCores}, {NoFails}, {TRUE}, {TRUE})

SpecWide == InitWide /\ [][NextWide]_vars

\* Every number of /add-pod attempts that do not reach the worker, under
\* first-fit with auto-scaling off
RetryCounts == [PodIds -> 0..max_attempts]

InitRetry == Init /\ ~AUTO_SCALE /\ SCHEDULING_ALGO = "first-fit"

NextRetry == Requests(MaxNodes, CoresInputs, RetryCounts, {TRUE}, {TRUE})

SpecRetry == InitRetry /\ [][NextRetry]_vars

\* ------------------------------------------------------------- the reads
\* GET /list-nodes: the node ids it lists
list_nodes == DictKeys(nodes)

\* GET /pod-status: the node ids that key the published status
pod_status == DictKeys(cached_status)

\* the positions of cached_status whose node records pod_id
NodesRecording(status, pod_id) == {i \in DOMAIN status : DictHas(status[i].v, pod_id)}

\* available capacity per node as the scheduler computes it
Allocations == NodeAllocations(nodes, cached_status)

ValidCpu == 1..MaxCpu

\* ------------------------------------------- handlers taken step by step
\* A request thread holds no lock between two steps below: each step is one
\* locked region of the handler, or the part of the worker's add_pod under
\* one acquisition of pods_lock.
Respond(t, code, msg, node_id, pod_id, attempts) ==
    /\ inflight' = [inflight EXCEPT ![t] = Idle]
    /\ last' = Response("LaunchPod", code, msg, node_id, pod_id, attempts,
                        NoReport, NoReport)

\* launch_pod, the scheduling decision under nodes_lock (auto-scaling off)
LaunchSchedule(t, pod_id, cpu) ==
    /\ ~AUTO_SCALE
    /\ held = {}
    /\ inflight[t] = Idle
    /\ IF cpu <= 0
       THEN Respond(t, "400", "CPU request must be a positive integer", None, None, 0)
       ELSE IF nodes = EmptyDict
       THEN Respond(t, "400", "No nodes available", None, None, 0)
       ELSE IF find_node_for_pod(SCHEDULING_ALGO, cpu, Allocations) = None
       THEN Respond(t, "400", "No node with sufficient capacity", None, None, 0)
       ELSE /\ inflight' = [inflight EXCEPT ![t] =
                   [pc |-> "post", pod_id |-> pod_id, cpu_request |-> cpu,
                    target_node |-> find_node_for_pod(SCHEDULING_ALGO, cpu, Allocations),
                    attempt |-> 1]]
            /\ UNCHANGED last
    /\ UNCHANGED << now, AUTO_SCALE, SCHEDULING_ALGO, nodes, cached_status, pending_pods,
                    node_counter, workers, held >>

\* launch_pod, the attempts: the container is looked up under nodes_lock, the
\* request is posted and the worker checks its capacity under pods_lock.  A
\* refused request is posted again; the max_attempts refusals are taken as
\* one step.
LaunchPost(t) ==
    /\ inflight[t].pc = "post"
    /\ IF ~DictHas(nodes, inflight[t].target_node)
       THEN Respond(t, "400", "Node not found", None, None, 0)
       ELSE IF WorkerAccepts(workers[inflight[t].target_node], inflight[t].cpu_request)
       THEN /\ inflight' = [inflight EXCEPT ![t].pc = "record"]
            /\ UNCHANGED last
       ELSE Respond(t, "400", "Node error", None, None, max_attempts)
    /\ UNCHANGED << now, AUTO_SCALE, SCHEDULING_ALGO, nodes, cached_status, pending_pods,
                    node_counter, workers, held >>

\* the worker's add_pod, second acquisition of pods_lock: the pod is recorded
\* and the worker answers 200.  A container stopped meanwhile answers nothing
\* and the next attempt finds no node.
WorkerRecords(t) ==
    /\ inflight[t].pc = "record"
    /\ IF inflight[t].target_node \in DOMAIN workers
       THEN /\ workers' = [workers EXCEPT ![inflight[t].target_node] =
                   WorkerRecord(@, inflight[t].pod_id, inflight[t].cpu_request)]
            /\ inflight' = [inflight EXCEPT ![t].pc = "commit"]
            /\ UNCHANGED last
       ELSE /\ Respond(t, "500", "Unexpected error", None, None, inflight[t].attempt)
            /\ UNCHANGED workers
    /\ UNCHANGED << now, AUTO_SCALE, SCHEDULING_ALGO, nodes, cached_status, pending_pods,
                    node_counter, held >>

\* launch_pod after the 200 of the worker: cached_status is updated under
\* cached_status_lock and the request answered
LaunchCommit(t) ==
    /\ inflight[t].pc = "commit"
    /\ cached_status' = RecordPlacement(cached_status, inflight[t].target_node,
                                        inflight[t].pod_id, inflight[t].cpu_request)
    /\ Respond(t, "200", "", inflight[t].target_node, inflight[t].pod_id,
               inflight[t].attempt)
    /\ UNCHANGED << now, AUTO_SCALE, SCHEDULING_ALGO, nodes, pending_pods, node_counter,
                    workers, held >>

\* ------------------------------------------------------------ poll_metrics
\* the entries poll_metrics writes for the pods of a /metrics response
\* (jsonify sorts the keys); node_health holds no report in this model, so
\* every pod reads healthy.  With node_health never bound each pod raises
\* and is skipped.
PolledPods(metrics, node_health_bound, node_health, busy) ==
    IF node_health_bound
    THEN [i \in DOMAIN AscendingIds(DOMAIN metrics) |->
             [k |-> AscendingIds(DOMAIN metrics)[i],
              v |-> [cpu_request |-> metrics[AscendingIds(DOMAIN metrics)[i]],
                     cpu_usage |-> IF DictGetOr(node_health, AscendingIds(DOMAIN metrics)[i], TRUE)
                                   THEN (IF busy THEN metrics[AscendingIds(DOMAIN metrics)[i]]
                                         ELSE 0)
                                   ELSE -1,
                     healthy |-> DictGetOr(node_health, AscendingIds(DOMAIN metrics)[i], TRUE)]]]
    ELSE EmptyDict

\* the except branch marking the pods unhealthy and keeping their cpu_usage
MarkUnreachableKeepingUsage(status, node_id) ==
    IF DictHas(status, node_id)
    THEN DictSet(status, node_id,
                 [i \in DOMAIN DictGet(status, node_id) |->
                     [k |-> DictGet(status, node_id)[i].k,
                      v |-> [DictGet(status, node_id)[i].v EXCEPT !.healthy = FALSE]]])
    ELSE status

\* the except branch: every cached pod of the node becomes unhealthy
MarkUnreachable(status, node_id) ==
    IF DictHas(status, node_id)
    THEN DictSet(status, node_id,
                 [i \in DOMAIN DictGet(status, node_id) |->
                     [k |-> DictGet(status, node_id)[i].k,
                      v |-> [DictGet(status, node_id)[i].v EXCEPT
                                !.healthy = FALSE, !.cpu_usage = -1]]])
    ELSE status

\* local_nodes = {node_id: container} under nodes_lock
PollSnapshot ==
    /\ inflight["poll"].pc = "idle"
    /\ nodes # EmptyDict
    /\ inflight' = [inflight EXCEPT !["poll"] =
           [pc |-> "fetch", local_nodes |-> [i \in DOMAIN nodes |-> nodes[i].k],
            node_health_bound |-> inflight["poll"].node_health_bound,
            node_health |-> inflight["poll"].node_health]]
    /\ UNCHANGED << now, AUTO_SCALE, SCHEDULING_ALGO, nodes, cached_status, pending_pods,
                    node_counter, workers, held, last >>

\* the end of the for loop: check_auto_scaling when AUTO_SCALE, then the sleep
PollNext(poll) ==
    IF Len(poll.local_nodes) = 1
    THEN [pc |-> IF AUTO_SCALE THEN "scale" ELSE "idle",
          node_health_bound |-> poll.node_health_bound,
          node_health |-> poll.node_health]
    ELSE [pc |-> "fetch", local_nodes |-> Tail(poll.local_nodes),
          node_health_bound |-> poll.node_health_bound, node_health |-> poll.node_health]

\* GET /metrics of the next node; a stopped container raises, as does a
\* request that does not get through (reach_ok false), and the pods cached
\* for the node are marked unhealthy.  The worker reports each pod idle
\* (cpu_usage 0) or, when busy, using the cores it requested.
PollFetch(reach_ok, busy) ==
    /\ inflight["poll"].pc = "fetch"
    /\ IF reach_ok /\ Head(inflight["poll"].local_nodes) \in DOMAIN workers
       THEN /\ inflight' = [inflight EXCEPT !["poll"] =
                   [pc |-> "write", local_nodes |-> inflight["poll"].local_nodes,
                    metrics |-> workers[Head(inflight["poll"].local_nodes)].pods,
                    busy |-> busy,
                    node_health_bound |-> inflight["poll"].node_health_bound,
                    node_health |-> inflight["poll"].node_health]]
            /\ UNCHANGED cached_status
       ELSE /\ inflight' = [inflight EXCEPT !["poll"] = PollNext(inflight["poll"])]
            /\ cached_status' =
                   MarkUnreachable(cached_status, Head(inflight["poll"].local_nodes))
    /\ UNCHANGED << now, AUTO_SCALE, SCHEDULING_ALGO, nodes, pending_pods, node_counter,
                    workers, held, last >>

\* node_health after "if node_id in nodes: node_health = ...": the map of
\* the node when it is registered, else what the local held before
NodeHealthRead(poll) ==
    IF DictHas(nodes, Head(poll.local_nodes))
    THEN DictGet(nodes, Head(poll.local_nodes)).pod_health
    ELSE poll.node_health

\* node_health is read under nodes_lock if the node is registered, then
\* cached_status[node_id] is replaced under cached_status_lock
PollWrite ==
    /\ inflight["poll"].pc = "write"
    /\ cached_status' =
           DictSet(cached_status, Head(inflight["poll"].local_nodes),
                   PolledPods(inflight["poll"].metrics,
                              \/ inflight["poll"].node_health_bound
                              \/ DictHas(nodes, Head(inflight["poll"].local_nodes)),
                              NodeHealthRead(inflight["poll"]), inflight["poll"].busy))
    /\ inflight' = [inflight EXCEPT !["poll"] =
           PollNext([inflight["poll"] EXCEPT
                        !.node_health_bound =
                            @ \/ DictHas(nodes, Head(inflight["poll"].local_nodes)),
                        !.node_health = NodeHealthRead(inflight["poll"])])]
    /\ UNCHANGED << now, AUTO_SCALE, SCHEDULING_ALGO, nodes, pending_pods, node_counter,
                    workers, held, last >>

\* Request threads and the poll thread interleaved, with nodes of the default
\* capacity under first-fit and auto-scaling off; AddNode and DeleteNode run
\* while the other threads stand between two steps.
ConcNodes == 1
ConcCpu == 1..DEFAULT_NODE_CAPACITY

InitConc == Init /\ ~AUTO_SCALE /\ SCHEDULING_ALGO = "first-fit"

NextConc ==
    \/ AddNode(ConcNodes, NoCores, TRUE, NoFails)
    \/ \E node_id \in list_nodes : DeleteNode(ConcNodes, node_id, TRUE, NoFails, TRUE)
    \/ \E t \in Handlers, pod_id \in PodIds, cpu \in ConcCpu : LaunchSchedule(t, pod_id, cpu)
    \/ \E t \in Handlers : LaunchPost(t)
    \/ \E t \in Handlers : WorkerRecords(t)
    \/ \E t \in Handlers : LaunchCommit(t)
    \/ PollSnapshot
    \/ PollFetch(TRUE, FALSE)
    \/ PollWrite

SpecConc == InitConc /\ [][NextConc]_vars

\* ----------------------------------------------- add_node, step by step
\* add_node up to and including "node_counter += 1", under no lock; limit
\* caps node_counter.  The load and the store of the increment are one step
\* here; the statement that names the node reads the global again and is the
\* step AddNodeName.
AddNodeCount(t, limit, cores) ==
    /\ held = {}
    /\ inflight[t] = Idle
    /\ IF (IF cores = NoCores THEN DEFAULT_NODE_CAPACITY ELSE cores) <= 0
       THEN /\ last' = Response("AddNode", "400", "", None, None, 0, NoReport, NoReport)
            /\ UNCHANGED << inflight, node_counter >>
       ELSE /\ node_counter < limit
            /\ node_counter' = node_counter + 1
            /\ inflight' = [inflight EXCEPT ![t] =
                   [pc |-> "name",
                    capacity |-> IF cores = NoCores THEN DEFAULT_NODE_CAPACITY ELSE cores]]
            /\ UNCHANGED last
    /\ UNCHANGED << now, AUTO_SCALE, SCHEDULING_ALGO, nodes, cached_status, pending_pods,
                    workers, held >>

\* node_id = f"node_{node_counter}": the global is read again
AddNodeName(t) ==
    /\ inflight[t].pc = "name"
    /\ inflight' = [inflight EXCEPT ![t] =
           [pc |-> "provision", node_id |-> node_counter,
            capacity |-> inflight[t].capacity]]
    /\ UNCHANGED << now, AUTO_SCALE, SCHEDULING_ALGO, nodes, cached_status, pending_pods,
                    node_counter, workers, held, last >>

\* docker runs the container (a container of that name is replaced), then
\* nodes[node_id] = {...} under nodes_lock
AddNodeProvision(t) ==
    /\ inflight[t].pc = "provision"
    /\ workers' = [n \in DOMAIN workers \cup {inflight[t].node_id} |->
                      IF n = inflight[t].node_id
                      THEN [capacity |-> inflight[t].capacity, pods |-> NoPods]
                      ELSE workers[n]]
    /\ nodes' = DictSet(nodes, inflight[t].node_id,
                        [capacity |-> inflight[t].capacity, pod_health |-> EmptyDict,
                         last_heartbeat |-> now])
    /\ inflight' = [inflight EXCEPT ![t].pc = "drain"]
    /\ UNCHANGED << now, AUTO_SCALE, SCHEDULING_ALGO, cached_status, pending_pods,
                    node_counter, held, last >>

\* check_pending_pods after the sleep, and the response (auto-scaling off)
AddNodeDrained(t) ==
    /\ inflight[t].pc = "drain"
    /\ ~AUTO_SCALE
    /\ nodes' = check_pending_pods(World, NoFails, NoCores, TRUE).W.nodes
    /\ cached_status' = check_pending_pods(World, NoFails, NoCores, TRUE).W.cached_status
    /\ pending_pods' = check_pending_pods(World, NoFails, NoCores, TRUE).W.pending_pods
    /\ workers' = check_pending_pods(World, NoFails, NoCores, TRUE).W.workers
    /\ inflight' = [inflight EXCEPT ![t] = Idle]
    /\ last' = Response("AddNode", "200", "", inflight[t].node_id, None, 0,
                        NoReport, NoReport)
    /\ UNCHANGED << now, AUTO_SCALE, SCHEDULING_ALGO, node_counter, held >>

\* AddNode requests of two threads interleaved, LaunchPod and DeleteNode
\* running between their steps; first-fit, auto-scaling off
InitAdd == Init /\ ~AUTO_SCALE /\ SCHEDULING_ALGO = "first-fit"

NextAdd ==
    \/ \E t \in Handlers, cores \in CoresInputs : AddNodeCount(t, MaxNodes, cores)
    \/ \E t \in Handlers : AddNodeName(t)
    \/ \E t \in Handlers : AddNodeProvision(t)
    \/ \E t \in Handlers : AddNodeDrained(t)
    \/ \E pod_id \in PodIds, cpu \in CpuInputs : LaunchPod(MaxNodes, pod_id, cpu, NoFails, TRUE)
    \/ \E node_id \in list_nodes : DeleteNode(MaxNodes, node_id, TRUE, NoFails, TRUE)

SpecAdd == InitAdd /\ [][NextAdd]_vars

\* ------------------------------------------------- scheduler on snapshots
\* Registries the handlers can leave behind, drawn instead of built: every
\* registration order of three nodes, capacities and resident pods such that
\* equal availability meets different capacity.
SchedNodes == 1..(MaxNodes + 1)
SchedCapacities == {4, 6, 8}
SchedUsed == {0, 2, 3, 6}
SchedOrders == {o \in [SchedNodes -> SchedNodes] : \A i, j \in SchedNodes : o[i] = o[j] => i = j}

\* the pod a node hosts from the start
ResidentPod(node_id) == MaxPods + node_id

ResidentStatus(order, used) ==
    SelectSeq([i \in SchedNodes |->
                  [k |-> order[i],
                   v |-> << [k |-> ResidentPod(order[i]),
                             v |-> [cpu_request |-> used[order[i]], cpu_usage |-> 0,
                                    healthy |-> TRUE]] >>]],
              LAMBDA e : e.v[1].v.cpu_request > 0)

InitSched ==
    /\ AUTO_SCALE = FALSE
    /\ SCHEDULING_ALGO \in Algos
    /\ \E order \in SchedOrders, cap \in [SchedNodes -> SchedCapacities],
          used \in [SchedNodes -> SchedUsed] :
          /\ \A n \in SchedNodes : used[n] <= cap[n]
          /\ nodes = [i \in SchedNodes |->
                         [k |-> order[i],
                          v |-> [capacity |-> cap[order[i]], pod_health |-> EmptyDict,
                                 last_heartbeat |-> 0]]]
          /\ cached_status = ResidentStatus(order, used)
          /\ workers = [n \in SchedNodes |->
                           [capacity |-> cap[n],
                            pods |-> IF used[n] = 0 THEN NoPods
                                     ELSE ResidentPod(n) :> used[n]]]
    /\ pending_pods = EmptyDict
    /\ node_counter = MaxNodes + 1
    /\ held = {}
    /\ inflight = [t \in Handlers \cup {"poll"} |-> IF t = "poll" THEN PollIdle ELSE Idle]
    /\ last = Response("none", "", "", None, None, 0, NoReport, NoReport)
    /\ now = 0

\* one more pod is launched on the snapshot
NextSched ==
    \E cpu \in ValidCpu :
       /\ NodesRecording(cached_status, MaxPods) = {}
       /\ LaunchPod(MaxNodes + 1, MaxPods, cpu, NoFails, TRUE)

SpecSched == InitSched /\ [][NextSched]_vars

\* ------------------------------------------------- three nodes of 4, 6, 8
\* node_1, node_2 and node_3 are added with 4, 6 and 8 cores and up to three
\* pods launched, each under a pod_id of its own; first-fit, auto-scaling off
ScenarioCores == << 4, 6, 8 >>

NextScenario ==
    \/ /\ node_counter < Len(ScenarioCores)
       /\ AddNode(Len(ScenarioCores), ScenarioCores[node_counter + 1], TRUE, NoFails)
    \/ \E pod_id \in 1..(MaxPods + 1), cpu \in ValidCpu :
          /\ NodesRecording(cached_status, pod_id) = {}
          /\ LaunchPod(Len(ScenarioCores), pod_id, cpu, [p \in 1..(MaxPods + 1) |-> 0], TRUE)

SpecScenario == InitWide /\ [][NextScenario]_vars

\* -------------------------------------------------------------- delete_pod
\* DELETE /delete-pod {node_id, pod_id}: the node is looked up under
\* nodes_lock, the worker is asked to delete the pod and its answer is passed
\* on; cached_status and pending_pods are not touched
delete_pod(W, node_id, pod_id) ==
    IF Locked(W, "nodes_lock") THEN [W |-> W, code |-> "hung"]
    ELSE IF ~DictHas(W.nodes, node_id) THEN [W |-> W, code |-> "404"]
    ELSE IF node_id \notin DOMAIN W.workers THEN [W |-> W, code |-> "500"]
    ELSE IF pod_id \notin DOMAIN W.workers[node_id].pods THEN [W |-> W, code |-> "400"]
    ELSE [W |-> [W EXCEPT !.workers[node_id] = WorkerDelete(@, pod_id)], code |-> "200"]

DeletePod(limit, node_id, pod_id) ==
    /\ Commit(delete_pod(World, node_id, pod_id).W, limit)
    /\ last' = Response("DeletePod", delete_pod(World, node_id, pod_id).code, "",
                        node_id, pod_id, 0, NoReport, NoReport)

\* The requests of Spec and DeletePod, under first-fit with auto-scaling off
NextPods ==
    \/ Requests(MaxNodes, CoresInputs, {NoFails}, {TRUE}, {TRUE})
    \/ \E node_id \in NodeIds, pod_id \in PodIds : DeletePod(MaxNodes, node_id, pod_id)

SpecPods == InitWide /\ [][NextPods]_vars

\* ------------------------------------------------- heartbeats and health
HEARTBEAT_TIMEOUT == 10

\* the clock advances TickSeconds at a time, up to MaxTime
TickSeconds == 5
MaxTime == 10

\* pod_health maps a worker reports: none of its pods, or one pod crashed
HealthReports == {EmptyDict} \cup {<< [k |-> p, v |-> FALSE] >> : p \in PodIds}

\* a heartbeat that registers the node it does not know
receive_heartbeat_registering(W, node_id, pod_health) ==
    [W |-> [W EXCEPT !.nodes =
               DictSet(@, node_id, [capacity |-> DEFAULT_NODE_CAPACITY,
                                    pod_health |-> pod_health,
                                    last_heartbeat |-> W.now])],
     code |-> "200"]

\* POST /heartbeat {node_id, pod_health}
receive_heartbeat(W, node_id, pod_health) ==
    IF node_id = None THEN [W |-> W, code |-> "400"]
    ELSE IF Locked(W, "nodes_lock") THEN [W |-> W, code |-> "hung"]
    ELSE IF DictHas(W.nodes, node_id)
    THEN [W |-> [W EXCEPT !.nodes =
                    DictSet(@, node_id, [DictGet(W.nodes, node_id) EXCEPT
                                            !.last_heartbeat = W.now,
                                            !.pod_health = pod_health])],
          code |-> "200"]
    ELSE [W |-> W, code |-> "404"]

Heartbeat(node_id, pod_health) ==
    /\ Commit(receive_heartbeat(World, node_id, pod_health).W, node_counter)
    /\ last' = Response("Heartbeat", receive_heartbeat(World, node_id, pod_health).code, "",
                        node_id, None, 0, NoReport, NoReport)

\* a listing that takes a heartbeat of exactly HEARTBEAT_TIMEOUT seconds ago
\* for healthy
list_nodes_response_inclusive(W) ==
    [i \in DOMAIN W.nodes |->
        [node_id |-> W.nodes[i].k,
         healthy |-> (W.now - W.nodes[i].v.last_heartbeat) <= HEARTBEAT_TIMEOUT,
         pod_health |-> W.nodes[i].v.pod_health,
         last_heartbeat |-> W.now - W.nodes[i].v.last_heartbeat,
         capacity |-> W.nodes[i].v.capacity]]

\* GET /list-nodes: one entry per registered node
list_nodes_response(W) ==
    [i \in DOMAIN W.nodes |->
        [node_id |-> W.nodes[i].k,
         healthy |-> (W.now - W.nodes[i].v.last_heartbeat) < HEARTBEAT_TIMEOUT,
         pod_health |-> W.nodes[i].v.pod_health,
         last_heartbeat |-> W.now - W.nodes[i].v.last_heartbeat,
         capacity |-> W.nodes[i].v.capacity]]

ListNodes ==
    /\ ~Locked(World, "nodes_lock")
    /\ last' = [op |-> "ListNodes", code |-> "200", nodes |-> list_nodes_response(World)]
    /\ UNCHANGED << now, AUTO_SCALE, SCHEDULING_ALGO, nodes, cached_status, pending_pods,
                    node_counter, workers, held, inflight >>

\* time passes
Tick ==
    /\ now < MaxTime
    /\ now' = now + TickSeconds
    /\ UNCHANGED << AUTO_SCALE, SCHEDULING_ALGO, nodes, cached_status, pending_pods,
                    node_counter, workers, held, inflight, last >>

\* Heartbeats, listings and polls between the requests, the clock running;
\* first-fit, auto-scaling off, workers that may not answer the poll
NextBeat ==
    \/ AddNode(ConcNodes, NoCores, TRUE, NoFails)
    \/ \E pod_id \in PodIds : LaunchPod(ConcNodes, pod_id, 1, NoFails, TRUE)
    \/ \E node_id \in list_nodes : DeleteNode(ConcNodes, node_id, TRUE, NoFails, TRUE)
    \/ \E node_id \in 0..ConcNodes, pod_health \in HealthReports : Heartbeat(node_id, pod_health)
    \/ ListNodes
    \/ Tick
    \/ PollSnapshot
    \/ \E reach_ok \in BOOLEAN : PollFetch(reach_ok, FALSE)
    \/ PollWrite

SpecBeat == InitWide /\ [][NextBeat]_vars

\* ------------------------------------------------------ generated pod ids
\* time.time() when the control plane starts, in seconds
StartTime == 1
MaxSeconds == 1

\* the pod_id of a request that has none: f"pod_{int(time.time())}", the pod
\* named after the second the request is handled in
DefaultPodId == StartTime + now

\* POST /launch-pod {cpu}
LaunchPodDefault(limit, cpu) == LaunchPod(limit, DefaultPodId, cpu, NoFails, TRUE)

\* a second passes
Second ==
    /\ now < MaxSeconds
    /\ now' = now + 1
    /\ UNCHANGED << AUTO_SCALE, SCHEDULING_ALGO, nodes, cached_status, pending_pods,
                    node_counter, workers, held, inflight, last >>

\* Requests that name no pod, the clock running; first-fit, auto-scaling off
NextClock ==
    \/ \E cores \in {NoCores, MaxCores} : AddNode(MaxNodes, cores, TRUE, NoFails)
    \/ \E cpu \in CpuInputs : LaunchPodDefault(MaxNodes, cpu)
    \/ \E node_id \in list_nodes : DeleteNode(MaxNodes, node_id, TRUE, NoFails, TRUE)
    \/ Second

SpecClock == InitWide /\ [][NextClock]_vars

\* ------------------------------------------------------- check_auto_scaling
AUTO_SCALE_HIGH_THRESHOLD == 80
AUTO_SCALE_LOW_THRESHOLD == 20

\* sum of cpu_usage over the pods whose cpu_usage is not negative
UsageSum(node_pods) ==
    SeqSum([i \in DOMAIN node_pods |->
               IF node_pods[i].v.cpu_usage >= 0 THEN node_pods[i].v.cpu_usage ELSE 0])

total_cpu_usage ==
    SeqSum([i \in DOMAIN nodes |-> UsageSum(DictGetOr(cached_status, nodes[i].k, EmptyDict))])

total_capacity == SeqSum([i \in DOMAIN nodes |-> nodes[i].v.capacity])

\* usage_percent > AUTO_SCALE_HIGH_THRESHOLD, without the division
UsageHigh == 100 * total_cpu_usage > AUTO_SCALE_HIGH_THRESHOLD * total_capacity

\* min(node_usage.items(), key=usage): the first node of least usage
least_loaded ==
    nodes[CHOOSE i \in DOMAIN nodes :
             \A j \in DOMAIN nodes :
                \/ UsageSum(DictGetOr(cached_status, nodes[i].k, EmptyDict))
                      < UsageSum(DictGetOr(cached_status, nodes[j].k, EmptyDict))
                \/ /\ UsageSum(DictGetOr(cached_status, nodes[i].k, EmptyDict))
                         = UsageSum(DictGetOr(cached_status, nodes[j].k, EmptyDict))
                   /\ i <= j].k

\* check_auto_scaling at the end of a poll, up to its decision, taken under
\* cached_status_lock and nodes_lock.  Above the high threshold it calls
\* add_node(auto_scaled=True), whose first statement reads request.json: the
\* poll thread handles no request, Flask raises RuntimeError before
\* node_counter is touched, nothing catches it and the thread ends.  Below
\* the low threshold with more than one node it goes on to remove the least
\* loaded node, the locks released.
check_auto_scaling(poll) ==
    IF nodes # EmptyDict /\ UsageHigh
    THEN [poll EXCEPT !.pc = "dead"]
    ELSE IF /\ nodes # EmptyDict
            /\ 100 * total_cpu_usage < AUTO_SCALE_LOW_THRESHOLD * total_capacity
            /\ Len(nodes) > 1
    THEN [pc |-> "remove", least_loaded |-> least_loaded,
          node_health_bound |-> poll.node_health_bound, node_health |-> poll.node_health]
    ELSE [poll EXCEPT !.pc = "idle"]

PollScale ==
    /\ inflight["poll"].pc = "scale"
    /\ held = {}
    /\ inflight' = [inflight EXCEPT !["poll"] = check_auto_scaling(@)]
    /\ UNCHANGED << now, AUTO_SCALE, SCHEDULING_ALGO, nodes, cached_status, pending_pods,
                    node_counter, workers, held, last >>

\* the removal followed by the addition of a node
PollRemoveThenAdd ==
    LET r == remove_node(World, inflight["poll"].least_loaded, TRUE, NoFails, NoRequest, TRUE)
        a == add_node(r.W, NoCores, TRUE, NoFails)
    IN /\ inflight["poll"].pc = "remove"
       /\ nodes' = a.W.nodes
       /\ cached_status' = a.W.cached_status
       /\ pending_pods' = a.W.pending_pods
       /\ node_counter' = a.W.node_counter
       /\ workers' = a.W.workers
       /\ held' = a.W.held
       /\ inflight' = [inflight EXCEPT !["poll"] =
              [pc |-> "idle", node_health_bound |-> @.node_health_bound,
               node_health |-> @.node_health]]
       /\ UNCHANGED << now, AUTO_SCALE, SCHEDULING_ALGO, last >>

\* remove_node(least_loaded[0]) in the poll thread; an add_node that
\* reschedule_pod attempts there raises, and remove_node queues the pod
PollRemove ==
    LET r == remove_node(World, inflight["poll"].least_loaded, TRUE, NoFails, NoRequest, TRUE)
    IN /\ inflight["poll"].pc = "remove"
       /\ nodes' = r.W.nodes
       /\ cached_status' = r.W.cached_status
       /\ pending_pods' = r.W.pending_pods
       /\ node_counter' = r.W.node_counter
       /\ workers' = r.W.workers
       /\ held' = r.W.held
       /\ inflight' = [inflight EXCEPT !["poll"] =
              [pc |-> "idle", node_health_bound |-> @.node_health_bound,
               node_health |-> @.node_health]]
       /\ UNCHANGED << now, AUTO_SCALE, SCHEDULING_ALGO, last >>

\* The poll thread between requests, auto-scaling on or off; first-fit,
\* nodes of the default capacity, workers idle or busy
InitScale == Init /\ SCHEDULING_ALGO = "first-fit"

NextScale ==
    \/ AddNode(MaxNodes, NoCores, TRUE, NoFails)
    \/ \E pod_id \in PodIds : LaunchPod(MaxNodes, pod_id, 1, NoFails, TRUE)
    \/ \E node_id \in list_nodes : DeleteNode(MaxNodes, node_id, TRUE, NoFails, TRUE)
    \/ PollSnapshot
    \/ \E busy \in BOOLEAN : PollFetch(TRUE, busy)
    \/ PollWrite
    \/ PollScale
    \/ PollRemove

SpecScale == InitScale /\ [][NextScale]_vars

\* ------------------------------------------------ the drain, auto-scaling on
DrainNodes == 4

\* Requests one after the other with auto-scaling on and first-fit, while no
\* thread is blocked: nodes of the default or of the largest capacity, pods
\* of one or two cores, the oldest node deleted
NextDrain ==
    \/ \E cores \in {NoCores, MaxCores} :
          held = {} /\ AddNode(DrainNodes, cores, TRUE, NoFails)
    \/ \E pod_id \in PodIds, cpu \in 1..2 :
          held = {} /\ LaunchPod(DrainNodes, pod_id, cpu, NoFails, TRUE)
    \/ /\ held = {}
       /\ nodes # EmptyDict
       /\ DeleteNode(DrainNodes, nodes[1].k, TRUE, NoFails, TRUE)

InitDrain == InitScale /\ AUTO_SCALE

SpecDrain == InitDrain /\ [][NextDrain]_vars

\* ----------------------------------------------------------- locked regions
\* The regions of the handlers in which a thread holds a lock across an
\* acquisition of another lock or across a call that blocks, in the order of
\* the source: check_auto_scaling reads nodes and cached_status under both
\* locks, launch_pod computes node_allocations, remove_node stops and removes
\* the container of the node.
CriticalSections ==
    [check_auto_scaling |->
        << [op |-> "acquire", what |-> "cached_status_lock"],
           [op |-> "acquire", what |-> "nodes_lock"] >>,
     launch_pod |->
        << [op |-> "acquire", what |-> "nodes_lock"],
           [op |-> "acquire", what |-> "cached_status_lock"] >>,
     remove_node |->
        << [op |-> "acquire", what |-> "nodes_lock"],
           [op |-> "call", what |-> "container.stop"],
           [op |-> "call", what |-> "container.remove"] >>]

\* the locks thread t has acquired in the region it stands in
LocksOf(t) ==
    IF inflight[t].pc \in DOMAIN CriticalSections
    THEN {CriticalSections[inflight[t].pc][i].what : i \in
             {j \in 1..inflight[t].at : CriticalSections[inflight[t].pc][j].op = "acquire"}}
    ELSE {}

\* thread t reaches the region with its locals: the poll thread where it
\* calls check_auto_scaling, a request thread with a request for a registry
\* that is not empty
Enter(t, section, locals) ==
    /\ inflight[t].pc = IF section = "check_auto_scaling" THEN "scale" ELSE "idle"
    /\ section # "check_auto_scaling" => nodes # EmptyDict
    /\ inflight' = [inflight EXCEPT ![t] = [pc |-> section, at |-> 0] @@ locals]
    /\ UNCHANGED << now, AUTO_SCALE, SCHEDULING_ALGO, nodes, cached_status, pending_pods,
                    node_counter, workers, held, last >>

\* the next statement of the region: "with lock:" waits until the lock is
\* free and takes it, a call is started
Step(t) ==
    /\ inflight[t].pc \in DOMAIN CriticalSections
    /\ inflight[t].at < Len(CriticalSections[inflight[t].pc])
    /\ LET s == CriticalSections[inflight[t].pc][inflight[t].at + 1]
       IN /\ s.op = "acquire" => s.what \notin held
          /\ held' = IF s.op = "acquire" THEN held \cup {s.what} ELSE held
    /\ inflight' = [inflight EXCEPT ![t].at = @ + 1]
    /\ UNCHANGED << now, AUTO_SCALE, SCHEDULING_ALGO, nodes, cached_status, pending_pods,
                    node_counter, workers, last >>

\* the end of the region: the locks are released and the handler runs to its
\* end, no other thread standing in a region
Leave(t) ==
    LET W == [World EXCEPT !.held = {}]
        r == IF inflight[t].pc = "launch_pod"
             THEN launch_pod(W, inflight[t].pod_id, inflight[t].cpu_request, NoFails, TRUE)
             ELSE IF inflight[t].pc = "remove_node"
             THEN remove_node(W, inflight[t].node_id, TRUE, NoFails, NoCores, TRUE)
             ELSE [W |-> W]
    IN /\ inflight[t].pc \in DOMAIN CriticalSections
       /\ inflight[t].at = Len(CriticalSections[inflight[t].pc])
       /\ held = LocksOf(t)
       /\ r.W.node_counter <= ConcNodes
       /\ nodes' = r.W.nodes
       /\ cached_status' = r.W.cached_status
       /\ pending_pods' = r.W.pending_pods
       /\ node_counter' = r.W.node_counter
       /\ workers' = r.W.workers
       /\ held' = r.W.held
       /\ inflight' = [inflight EXCEPT ![t] =
              IF @.pc = "check_auto_scaling"
              THEN check_auto_scaling([pc |-> "scale", node_health_bound |-> @.node_health_bound,
                                       node_health |-> @.node_health])
              ELSE Idle]
       /\ last' = IF inflight[t].pc = "launch_pod"
                  THEN Response("LaunchPod", r.code, r.msg, r.node_id,
                                IF r.code = "200" THEN inflight[t].pod_id ELSE None,
                                r.attempts, NoReport, NoReport)
                  ELSE IF inflight[t].pc = "remove_node"
                  THEN Response("DeleteNode", IF r.code = "hung" THEN "hung" ELSE "200", "",
                                inflight[t].node_id, None, 0, r.failed, r.rescheduled)
                  ELSE last
       /\ UNCHANGED << now, AUTO_SCALE, SCHEDULING_ALGO >>

\* The poll thread with its tick and two request threads, each taking its
\* locks one by one; first-fit, one node of the default capacity, which the
\* tick never chooses to remove
NextLocks ==
    \/ held = {} /\ AddNode(ConcNodes, NoCores, TRUE, NoFails)
    \/ held = {} /\ PollSnapshot
    \/ PollFetch(TRUE, FALSE)
    \/ held = {} /\ PollWrite
    \/ Enter("poll", "check_auto_scaling",
             [node_health_bound |-> inflight["poll"].node_health_bound,
              node_health |-> inflight["poll"].node_health])
    \/ \E t \in Handlers, pod_id \in PodIds :
          Enter(t, "launch_pod", [pod_id |-> pod_id, cpu_request |-> 1])
    \/ \E t \in Handlers, node_id \in list_nodes :
          Enter(t, "remove_node", [node_id |-> node_id])
    \/ \E t \in Handlers \cup {"poll"} : Step(t)
    \/ \E t \in Handlers \cup {"poll"} : Leave(t)

SpecLocks == InitScale /\ [][NextLocks]_vars

\* ------------------------------------------------------------------ claims
\* C1: in every reachable state, for every registered node the sum of
\* cpu_request over the pods the control plane records on it is at most the
\* capacity of the node.
C1_RecordedWithinCapacity ==
    \A i \in DOMAIN nodes :
        RequestSum(DictGetOr(cached_status, nodes[i].k, EmptyDict)) <= nodes[i].v.capacity

\* C2: in every reachable state a pod_id is recorded on at most one node, and
\* a pod_id recorded on a node is not in the pending queue.
C2_PodOnAtMostOneNode ==
    \A p \in PodIds :
        /\ Cardinality(NodesRecording(cached_status, p)) <= 1
        /\ NodesRecording(cached_status, p) # {} => ~DictHas(pending_pods, p)

Displaced(node_id) == PodsToReschedule(cached_status, node_id)

Entries(report) == {report[i] : i \in DOMAIN report}

\* C4: for a DeleteNode of a registered node, each pod recorded on it is in
\* exactly one of rescheduled[] and failed[]; on return every failed pod is
\* pending with origin_node the removed node, every rescheduled pod is
\* recorded on exactly one registered node with its cpu_request, and the
\* node is removed.
C4_DeleteNodeReport ==
    [][\A n \in 1..(MaxNodes + 1) :
          (DictHas(nodes, n) /\ DeleteNode(MaxNodes + 1, n, TRUE, NoFails, TRUE))
          => /\ ~DictHas(nodes', n)
             /\ \A e \in Entries(Displaced(n)) :
                   (e \in Entries(last'.failed)) # (e \in Entries(last'.rescheduled))
             /\ \A e \in Entries(last'.failed) :
                   /\ DictHas(pending_pods', e.pod_id)
                   /\ DictGet(pending_pods', e.pod_id).origin_node = n
             /\ \A e \in Entries(last'.rescheduled) :
                   /\ Cardinality(NodesRecording(cached_status', e.pod_id)) = 1
                   /\ \A i \in NodesRecording(cached_status', e.pod_id) :
                         /\ DictHas(nodes', cached_status'[i].k)
                         /\ DictGet(cached_status'[i].v, e.pod_id).cpu_request
                               = e.cpu_request]_vars

\* some node other than node_id has room for all the pods of node_id together
RoomElsewhere(node_id) ==
    \E m \in DOMAIN DictDel(Allocations, node_id) :
        DictDel(Allocations, node_id)[m].v.available
            >= RequestSum(DictGetOr(cached_status, node_id, EmptyDict))

\* C5: with auto-scaling off and the workers answering, when a remaining node
\* has room for all the displaced pods together, DeleteNode reschedules every
\* displaced pod: failed[] is empty, the pending queue is unchanged and every
\* displaced pod is recorded on a remaining node (under each algorithm).
C5_DisplacedPodsRescheduled ==
    [][\A n \in NodeIds :
          (/\ ~AUTO_SCALE
           /\ DictHas(nodes, n)
           /\ RoomElsewhere(n)
           /\ DeleteNode(MaxNodes, n, TRUE, NoFails, TRUE))
          => /\ last'.failed = << >>
             /\ pending_pods' = pending_pods
             /\ \A e \in Entries(Displaced(n)) :
                   /\ e \in Entries(last'.rescheduled)
                   /\ \E i \in NodesRecording(cached_status', e.pod_id) :
                         DictHas(nodes', cached_status'[i].k)]_vars

\* C5, witness: a DeleteNode with auto-scaling off has rescheduled two pods
\* and failed none.
C5_Witness ==
    /\ ~AUTO_SCALE
    /\ last.op = "DeleteNode"
    /\ Len(last.rescheduled) = 2
    /\ last.failed = << >>

C7_RemovedNodeNeverPublished ==
    [][\A n \in NodeIds :
          (n <= node_counter /\ n \notin list_nodes /\ n \notin pod_status)
          => n \notin pod_status']_vars

\* C8: with auto-scaling off, a LaunchPod with a valid cpu_request for which
\* no registered node has enough available capacity (or no node exists)
\* fails, makes no worker call and changes neither the registry, the
\* published status nor the pending queue.
C8_NoCapacityLeavesStateUnchanged ==
    [][\A p \in PodIds, cpu \in ValidCpu :
          (/\ ~AUTO_SCALE
           /\ ~CanFit(cpu, Allocations)
           /\ LaunchPod(MaxNodes, p, cpu, NoFails, TRUE))
          => /\ last'.code = "400"
             /\ last'.attempts = 0
             /\ UNCHANGED << nodes, cached_status, pending_pods, workers, node_counter >>]_vars

\* C8, witness: with auto-scaling off and a node registered, a LaunchPod was
\* refused because no node had the capacity.
C8_Witness ==
    /\ ~AUTO_SCALE
    /\ last.op = "LaunchPod"
    /\ last.msg = "No node with sufficient capacity"
    /\ nodes # EmptyDict

\* C9: with auto-scaling on, a LaunchPod whose cpu_request exceeds the
\* capacity of every existing node and the default capacity returns success
\* with the pod on a node of capacity at least cpu_request.
C9_LargePodGetsLargeNode ==
    [][\A p \in PodIds, cpu \in ValidCpu :
          (/\ AUTO_SCALE
           /\ held = {}
           /\ nodes # EmptyDict
           /\ cpu > DEFAULT_NODE_CAPACITY
           /\ \A i \in DOMAIN nodes : nodes[i].v.capacity < cpu
           /\ LaunchPod(MaxNodes, p, cpu, NoFails, TRUE))
          => /\ last'.code = "200"
             /\ DictHas(nodes', last'.node_id)
             /\ DictGet(nodes', last'.node_id).capacity >= cpu
             /\ DictHas(DictGetOr(cached_status', last'.node_id, EmptyDict), p)]_vars

\* C10: with auto-scaling on and an empty registry, a LaunchPod with a valid
\* cpu_request of at most the default capacity returns success, one node of
\* default capacity is registered and the pod is recorded on it.
C10_LaunchOnEmptyRegistry ==
    [][\A p \in PodIds, cpu \in 1..DEFAULT_NODE_CAPACITY :
          (/\ AUTO_SCALE
           /\ held = {}
           /\ nodes = EmptyDict
           /\ LaunchPod(MaxNodes, p, cpu, NoFails, TRUE))
          => /\ last'.code = "200"
             /\ Len(nodes') = 1
             /\ nodes'[1].v.capacity = DEFAULT_NODE_CAPACITY
             /\ DictHas(DictGetOr(cached_status', nodes'[1].k, EmptyDict), p)]_vars

FittingNodes(cpu_request) ==
    {Allocations[i].k : i \in {j \in DOMAIN Allocations :
                                  Allocations[j].v.available >= cpu_request}}

LowestId(S) == CHOOSE n \in S : \A m \in S : n <= m

\* C12: under first-fit the scheduler returns the fitting node with the
\* smallest numeric node id, and none exactly when no registered node fits,
\* for registries produced by removals and by concurrent AddNode requests.
C12_FirstFitLowestId ==
    \A cpu \in ValidCpu :
       FirstFit(cpu, Allocations) =
          IF FittingNodes(cpu) = {} THEN None ELSE LowestId(FittingNodes(cpu))

\* what a registered node has available
Available(node_id) == DictGet(Allocations, node_id).available

\* what every fitting node would keep after taking cpu_request
Remainders(cpu_request) == {Available(n) - cpu_request : n \in FittingNodes(cpu_request)}

\* C13: under best-fit (resp. worst-fit) a launch on a registry with a
\* fitting node is placed on a fitting node whose remaining capacity after
\* the placement is the least (resp. the greatest) over the fitting nodes,
\* and the launch finds no node exactly when no node fits.
C13_BestWorstFitExtremal ==
    [][\A cpu \in ValidCpu :
          (SCHEDULING_ALGO # "first-fit"
           /\ LaunchPod(MaxNodes + 1, MaxPods, cpu, NoFails, TRUE)) =>
             IF FittingNodes(cpu) = {}
             THEN last'.code = "400" /\ last'.msg = "No node with sufficient capacity"
             ELSE /\ last'.code = "200"
                  /\ last'.node_id \in FittingNodes(cpu)
                  /\ \A r \in Remainders(cpu) :
                        IF SCHEDULING_ALGO = "best-fit"
                        THEN Available(last'.node_id) - cpu <= r
                        ELSE Available(last'.node_id) - cpu >= r]_vars

\* a worst-fit launch placed where it leaves more than elsewhere
C13_Witness ==
    /\ SCHEDULING_ALGO = "worst-fit"
    /\ last.op = "LaunchPod"
    /\ last.code = "200"
    /\ \E n \in list_nodes : n # last.node_id /\ Available(n) < Available(last.node_id)
    /\ \E n \in list_nodes : Available(n) = 0

\* the fitting nodes of least remaining capacity
TiedNodes(cpu_request) ==
    {n \in FittingNodes(cpu_request) :
        \A r \in Remainders(cpu_request) : Available(n) - cpu_request <= r}

\* C14: when a best-fit launch finds several fitting nodes of least remaining
\* capacity, it is placed on one of them of the highest total capacity,
\* except that it is placed on node_2 when the tied nodes are exactly node_1
\* and node_2.
C14_BestFitTieBreak ==
    [][\A cpu \in ValidCpu :
          (SCHEDULING_ALGO = "best-fit"
           /\ Cardinality(TiedNodes(cpu)) > 1
           /\ LaunchPod(MaxNodes + 1, MaxPods, cpu, NoFails, TRUE)) =>
             IF TiedNodes(cpu) = {1, 2}
             THEN last'.node_id = 2
             ELSE /\ last'.node_id \in TiedNodes(cpu)
                  /\ \A n \in TiedNodes(cpu) :
                        DictGet(nodes, n).capacity <= DictGet(nodes, last'.node_id).capacity]_vars

\* C15: when a worst-fit launch finds several fitting nodes of greatest
\* remaining capacity, it is placed on the one of lowest numeric node id,
\* in whatever order the nodes were registered.
C15_WorstFitTieLowestId ==
    [][\A cpu \in ValidCpu :
          (SCHEDULING_ALGO = "worst-fit"
           /\ FittingNodes(cpu) # {}
           /\ LaunchPod(MaxNodes + 1, MaxPods, cpu, NoFails, TRUE)) =>
             last'.node_id =
                LowestId({n \in FittingNodes(cpu) :
                             \A r \in Remainders(cpu) : Available(n) - cpu >= r})]_vars

\* a worst-fit launch placed on node_1 although node_1 was registered after
\* a node that had as much available
C15_Witness ==
    /\ SCHEDULING_ALGO = "worst-fit"
    /\ last.op = "LaunchPod"
    /\ last.code = "200"
    /\ last.node_id = 1
    /\ nodes[1].k # 1
    /\ \E cpu \in ValidCpu : Available(nodes[1].k) = Available(1) + cpu

\* C16: under first-fit with auto-scaling off and node_1, node_2, node_3 of
\* capacity 4, 6, 8, all empty, launches of 3, 2 and 3 cores in a row are
\* placed on node_1, node_2 and node_3.
C16_FirstFitThreeLaunches ==
    [][\A pod_id \in 1..(MaxPods + 1), cpu \in ValidCpu :
          (/\ [n \in DOMAIN nodes |-> nodes[n].k] = << 1, 2, 3 >>
           /\ NodesRecording(cached_status, pod_id) = {}
           /\ LaunchPod(Len(ScenarioCores), pod_id, cpu, [p \in 1..(MaxPods + 1) |-> 0], TRUE)) =>
             /\ (cpu = 3 /\ << Available(1), Available(2), Available(3) >> = << 4, 6, 8 >>)
                   => last'.node_id = 1
             /\ (cpu = 2 /\ << Available(1), Available(2), Available(3) >> = << 1, 6, 8 >>)
                   => last'.node_id = 2
             /\ (cpu = 3 /\ << Available(1), Available(2), Available(3) >> = << 1, 4, 8 >>)
                   => last'.node_id = 3]_vars

\* C16 as the code has it: the third launch, of 3 cores, is placed on
\* node_2, which has 4 of its 6 cores available; node_3 stays empty.
C16_ThirdLaunchOnNode2 ==
    [][\A pod_id \in 1..(MaxPods + 1), cpu \in ValidCpu :
          (/\ [n \in DOMAIN nodes |-> nodes[n].k] = << 1, 2, 3 >>
           /\ NodesRecording(cached_status, pod_id) = {}
           /\ LaunchPod(Len(ScenarioCores), pod_id, cpu, [p \in 1..(MaxPods + 1) |-> 0], TRUE)) =>
             /\ (cpu = 3 /\ << Available(1), Available(2), Available(3) >> = << 4, 6, 8 >>)
                   => last'.node_id = 1
             /\ (cpu = 2 /\ << Available(1), Available(2), Available(3) >> = << 1, 6, 8 >>)
                   => last'.node_id = 2
             /\ (cpu = 3 /\ << Available(1), Available(2), Available(3) >> = << 1, 4, 8 >>)
                   => /\ last'.node_id = 2
                      /\ << Available(1)', Available(2)', Available(3)' >> = << 1, 1, 8 >>]_vars

\* the three launches have been made: 3 cores on node_1, 2 and 3 on node_2
C16_Witness ==
    /\ last.op = "LaunchPod"
    /\ last.code = "200"
    /\ last.node_id = 2
    /\ [n \in DOMAIN nodes |-> nodes[n].v.capacity] = ScenarioCores
    /\ [i \in DOMAIN cached_status |-> [j \in DOMAIN cached_status[i].v |->
                                            cached_status[i].v[j].v.cpu_request]]
          = << << 3 >>, << 2, 3 >> >>

\* C17: under best-fit with node_1 (capacity 4, 2 available), node_2
\* (capacity 6, 3 available) and node_3 (capacity 8, 2 available), a launch
\* of 2 cores is placed on node_2.
C17_BestFitProbeOnNode2 ==
    [][(/\ SCHEDULING_ALGO = "best-fit"
        /\ [n \in SchedNodes |-> DictGet(nodes, n).capacity] = ScenarioCores
        /\ << Available(1), Available(2), Available(3) >> = << 2, 3, 2 >>
        /\ LaunchPod(MaxNodes + 1, MaxPods, 2, NoFails, TRUE))
       => last'.node_id = 2]_vars

\* C17 as the code has it: node_1 and node_3 would both be left with 0,
\* node_2 with 1, and of the two tied nodes node_3 has the higher capacity.
C17_BestFitProbeOnNode3 ==
    [][(/\ SCHEDULING_ALGO = "best-fit"
        /\ [n \in SchedNodes |-> DictGet(nodes, n).capacity] = ScenarioCores
        /\ << Available(1), Available(2), Available(3) >> = << 2, 3, 2 >>
        /\ LaunchPod(MaxNodes + 1, MaxPods, 2, NoFails, TRUE))
       => last'.code = "200" /\ last'.node_id = 3]_vars

C17_Witness ==
    /\ SCHEDULING_ALGO = "best-fit"
    /\ last.op = "LaunchPod"
    /\ last.node_id = 3
    /\ [n \in SchedNodes |-> DictGet(nodes, n).capacity] = ScenarioCores
    /\ << Available(1), Available(2), Available(3) >> = << 2, 3, 0 >>
    /\ DictGet(DictGet(cached_status, 3), MaxPods).cpu_request = 2

\* C18: a LaunchPod with cpu <= 0 and an AddNode with cores <= 0 are
\* answered 400 at once: no /add-pod request is made, no container is run,
\* and the registry, the status, the pending queue, the node counter and
\* the workers are what they were, whatever docker and the workers would
\* have answered.
C18_NonPositiveRejected ==
    [][\A fails \in FailCounts, provision_ok \in BOOLEAN :
          (\/ \E pod_id \in PodIds : LaunchPod(MaxNodes, pod_id, 0, fails, provision_ok)
           \/ AddNode(MaxNodes, 0, provision_ok, fails)) =>
             /\ last'.code = "400"
             /\ last'.attempts = 0
             /\ UNCHANGED << nodes, cached_status, pending_pods, node_counter, workers, held >>]_vars

\* cores = 0 has been refused with a node registered and a pod pending
C18_Witness ==
    /\ last.op = "AddNode"
    /\ last.code = "400"
    /\ nodes # EmptyDict
    /\ pending_pods # EmptyDict
    /\ cached_status # EmptyDict

\* C19: when an AddNode is answered 200, with the workers accepting and no
\* other request running, no pod is left pending whose cpu_request some
\* registered node has available, and every pod the drain took out of the
\* pending queue is recorded on exactly one node.
C19_DrainAfterAddNode ==
    [][(last'.op = "AddNode" /\ last'.code = "200" /\ last' # last) =>
          /\ \A i \in DOMAIN pending_pods' :
                ~CanFit(pending_pods'[i].v.cpu_request,
                        NodeAllocations(nodes', cached_status'))
          /\ \A pod_id \in DictKeys(pending_pods) \ DictKeys(pending_pods') :
                Cardinality(NodesRecording(cached_status', pod_id)) = 1]_vars

\* C20: check_pending_pods run twice in a row, with nothing in between and
\* the workers accepting, leaves after the second run the registry, the
\* status and the pending queue that the first run left.
C20_DrainIdempotent ==
    LET first == check_pending_pods(World, NoFails, NoCores, TRUE)
        second == check_pending_pods(first.W, NoFails, NoCores, TRUE)
    IN first.code = "done" =>
          /\ second.code = "done"
          /\ second.W.nodes = first.W.nodes
          /\ second.W.cached_status = first.W.cached_status
          /\ second.W.pending_pods = first.W.pending_pods

\* C21: a DeletePod answered 200 drains the pending queue: a pending pod
\* whose cpu_request fits the node once the deleted pod's cores are free is
\* placed and leaves the queue in that same step.
C21_DeletePodDrains ==
    [][(last'.op = "DeletePod" /\ last'.code = "200" /\ last' # last) =>
          \A i \in DOMAIN pending_pods :
             pending_pods[i].v.cpu_request
                <= Available(last'.node_id)
                   + DictGet(DictGet(cached_status, last'.node_id), last'.pod_id).cpu_request
             => /\ ~DictHas(pending_pods', pending_pods[i].k)
                /\ NodesRecording(cached_status', pending_pods[i].k) # {}]_vars

\* C22: when a DeletePod of a launched pod is answered 200, the status no
\* longer lists the pod on that node and the pod's cpu_request no longer
\* counts against what the node has available.
C22_DeletePodUnrecords ==
    [][(last'.op = "DeletePod" /\ last'.code = "200" /\ last' # last
        /\ DictHas(DictGetOr(cached_status, last'.node_id, EmptyDict), last'.pod_id)) =>
          /\ ~DictHas(DictGetOr(cached_status', last'.node_id, EmptyDict), last'.pod_id)
          /\ DictGet(NodeAllocations(nodes', cached_status'), last'.node_id).available
                = Available(last'.node_id)
                  + DictGet(DictGet(cached_status, last'.node_id), last'.pod_id).cpu_request]_vars

\* POST /add-node {cores} answered 200 and then DELETE /delete-node of the
\* returned id, from the world W: the world the two requests leave behind
\* (W itself when the add-node is not answered 200)
AddThenDelete(W, cores) ==
    LET added == add_node(W, cores, TRUE, NoFails)
    IN IF added.code # "200" THEN W
       ELSE remove_node(added.W, added.node_id, TRUE, NoFails, NoCores, TRUE).W

C24_DeleteUnknownNodeNotFound ==
    [][(last'.op = "DeleteNode" /\ ~DictHas(nodes, last'.node_id)) =>
          /\ last'.code = "404"
          /\ UNCHANGED << nodes, cached_status, pending_pods >>]_vars

\* C25: with the requests handled one at a time, every AddNode answered 200
\* issues a number above node_counter, which never decreases, advances also
\* when provisioning fails and bounds the number of every registered node: the
\* number of a removed node, or of a node whose provisioning failed, is not
\* issued again.
C25_NodeIdsNeverReissued ==
    [][/\ node_counter' >= node_counter
       /\ \A n \in DictKeys(nodes') : n <= node_counter'
       /\ (last'.op = "AddNode" /\ last'.code = "200") =>
             /\ last'.node_id > node_counter
             /\ last'.node_id <= node_counter'
             /\ DictHas(nodes', last'.node_id)
       /\ (last'.op = "AddNode" /\ last'.code = "500") => node_counter' > node_counter]_vars

\* node_2 has been issued after node_1 was removed or failed to start
C25_Witness ==
    /\ last.op = "AddNode" /\ last.code = "200" /\ last.node_id = 2
    /\ ~DictHas(nodes, 1)

\* C26: node ids are assigned atomically: two AddNode requests running at
\* the same time never hold the same node id.
C26_ConcurrentAddNodeDistinctIds ==
    \A t, u \in Handlers :
       (/\ t # u
        /\ inflight[t].pc \in {"provision", "drain"}
        /\ inflight[u].pc \in {"provision", "drain"})
       => inflight[t].node_id # inflight[u].node_id

\* C27: ListNodes lists every registered node, healthy exactly when fewer
\* than 10 seconds have passed since its last heartbeat; and no step takes a
\* node out of the registry other than a DeleteNode of that node, however old
\* its heartbeat.
C27_HealthyWithinTimeout ==
    [][/\ ListNodes =>
             /\ {last'.nodes[i].node_id : i \in DOMAIN last'.nodes} = DictKeys(nodes)
             /\ \A i \in DOMAIN last'.nodes :
                   last'.nodes[i].healthy
                      <=> (now - DictGet(nodes, last'.nodes[i].node_id).last_heartbeat < 10)
       /\ \A node_id \in DictKeys(nodes) \ DictKeys(nodes') :
             last'.op = "DeleteNode" /\ last'.node_id = node_id]_vars

\* a node whose last heartbeat is exactly 10 seconds old is listed, unhealthy
C27_Witness ==
    /\ last.op = "ListNodes"
    /\ \E i \in DOMAIN last.nodes :
          /\ ~last.nodes[i].healthy
          /\ last.nodes[i].last_heartbeat = 10
          /\ DictHas(nodes, last.nodes[i].node_id)

\* C28: a Heartbeat naming a node_id that is not registered is answered 404
\* and changes nothing; a Heartbeat for a registered node sets its
\* last_heartbeat to the current time and its pod_health to the reported map.
C28_HeartbeatKnownNodesOnly ==
    [][\A node_id \in 1..ConcNodes, pod_health \in HealthReports :
          Heartbeat(node_id, pod_health) =>
             IF DictHas(nodes, node_id)
             THEN /\ last'.code = "200"
                  /\ DictGet(nodes', node_id).last_heartbeat = now
                  /\ DictGet(nodes', node_id).pod_health = pod_health
             ELSE /\ last'.code = "404"
                  /\ UNCHANGED << nodes, cached_status, pending_pods, node_counter,
                                  workers >>]_vars

\* the heartbeat of a node that was registered and removed has been refused
C28_Witness ==
    /\ last.op = "Heartbeat" /\ last.code = "404"
    /\ last.node_id = node_counter
    /\ ~DictHas(nodes, last.node_id)

\* C29: after every step, a pod entry of the status with healthy false has
\* cpu_usage -1; and a poll that cannot reach a node leaves every pod the
\* status knew for that node unhealthy with cpu_usage -1, and the registry as
\* it was.
C29_UnhealthyUsageMinusOne ==
    [][/\ \A i \in DOMAIN cached_status' : \A j \in DOMAIN cached_status'[i].v :
             ~cached_status'[i].v[j].v.healthy => cached_status'[i].v[j].v.cpu_usage = -1
       /\ PollFetch(FALSE, FALSE) =>
             /\ nodes' = nodes
             /\ \A pod_id \in PodsOn(Head(inflight["poll"].local_nodes)) :
                   /\ ~DictGet(DictGet(cached_status', Head(inflight["poll"].local_nodes)),
                               pod_id).healthy
                   /\ DictGet(DictGet(cached_status', Head(inflight["poll"].local_nodes)),
                              pod_id).cpu_usage = -1]_vars

\* a registered node that reported no crashed pod has a pod marked unhealthy
C29_Witness ==
    \E i \in DOMAIN cached_status : \E j \in DOMAIN cached_status[i].v :
       /\ ~cached_status[i].v[j].v.healthy
       /\ cached_status[i].v[j].v.cpu_usage = -1
       /\ DictHas(nodes, cached_status[i].k)
       /\ DictGet(nodes, cached_status[i].k).pod_health = EmptyDict

\* C30: with auto-scaling on, the periodic check that finds the cpu_usage of
\* the healthy pods above the high threshold (in percent of the summed
\* capacities) adds one node of the default capacity, and the poll thread
\* goes on to its next round.
C30_ScaleUpAddsNode ==
    [][(PollScale /\ nodes # EmptyDict /\ UsageHigh) =>
          /\ Len(nodes') = Len(nodes) + 1
          /\ nodes'[Len(nodes')].v.capacity = DEFAULT_NODE_CAPACITY
          /\ inflight'["poll"].pc = "idle"]_vars

\* C31: with auto-scaling on, a check that finds the usage below the low
\* threshold with more than one node registered picks the node of lowest
\* summed cpu_usage of healthy pods; the removal takes that node out of the
\* registry with each of its pods recorded on a registered node or pending
\* afterwards; and the auto-scaler never removes the only remaining node.
C31_ScaleDownLeastLoaded ==
    [][/\ (/\ PollScale
           /\ 100 * total_cpu_usage < AUTO_SCALE_LOW_THRESHOLD * total_capacity
           /\ Len(nodes) > 1) =>
             /\ inflight'["poll"].pc = "remove"
             /\ \A i \in DOMAIN nodes :
                   UsageSum(DictGetOr(cached_status, inflight'["poll"].least_loaded, EmptyDict))
                      <= UsageSum(DictGetOr(cached_status, nodes[i].k, EmptyDict))
       /\ PollRemove =>
             /\ ~DictHas(nodes', inflight["poll"].least_loaded)
             /\ \A pod_id \in PodsOn(inflight["poll"].least_loaded) :
                   \/ DictHas(pending_pods', pod_id)
                   \/ \E i \in NodesRecording(cached_status', pod_id) :
                         DictHas(nodes', cached_status'[i].k)
             /\ nodes' # EmptyDict]_vars

C33_GeneratedIdFresh ==
    [][(\E cpu \in 1..MaxCpu : LaunchPodDefault(MaxNodes, cpu)) =>
          /\ \A node_id \in list_nodes : DefaultPodId \notin PodsOn(node_id)
          /\ DefaultPodId \notin DictKeys(pending_pods)]_vars

\* C34: once a LaunchPod that answered success on node n and a DeleteNode(n)
\* have both returned, the launched pod is recorded on a registered node or is
\* in the pending queue, however the two requests were interleaved.
C34_LaunchedPodSurvivesDeleteNode ==
    (/\ \A t \in Handlers : inflight[t] = Idle
     /\ last.op = "LaunchPod" /\ last.code = "200"
     /\ ~DictHas(nodes, last.node_id))
    => \/ DictHas(pending_pods, last.pod_id)
       \/ \E node_id \in list_nodes : last.pod_id \in PodsOn(node_id)

\* C35: no thread holds a lock while it performs a call that blocks (a
\* worker call, a provisioner call such as stopping or removing a container,
\* a backoff sleep).
C35_NoLockHeldAcrossCalls ==
    \A t \in Handlers \cup {"poll"} :
       (/\ inflight[t].pc \in DOMAIN CriticalSections
        /\ inflight[t].at >= 1
        /\ CriticalSections[inflight[t].pc][inflight[t].at].op = "call")
       => LocksOf(t) = {}

\* C38: no two threads of the control plane ever each hold a lock while
\* waiting for a lock the other holds: the locks are taken in one order.
C38_NoLockOrderDeadlock ==
    LET Waiting(t) ==
            /\ inflight[t].pc \in DOMAIN CriticalSections
            /\ inflight[t].at < Len(CriticalSections[inflight[t].pc])
            /\ CriticalSections[inflight[t].pc][inflight[t].at + 1].op = "acquire"
        Wanted(t) == CriticalSections[inflight[t].pc][inflight[t].at + 1].what
    IN \A t, u \in Handlers \cup {"poll"} :
          ~(/\ t # u
            /\ Waiting(t) /\ Wanted(t) \in LocksOf(u)
            /\ Waiting(u) /\ Wanted(u) \in LocksOf(t))

\* C36: every drain of the pending queue terminates: no thread is ever left
\* blocked inside check_pending_pods, which it would be with pending_pods_lock
\* held.
C36_DrainTerminates == "pending_pods_lock" \notin held

\* C37: a DeleteNode with auto-scaling off and the workers answering tries the
\* displaced pods in ascending cpu_request against running totals.  A pod
\* larger than the available capacity of every remaining node is reported
\* failed and queued with origin_node the removed node, and is placed
\* nowhere; each other pod is rescheduled exactly when, the pods rescheduled
\* before it charged to the nodes that took them, some remaining node has
\* room for it; the rescheduled pods are reported in ascending cpu_request.
C37_AscendingAgainstRunningTotals ==
    [][\A n \in 1..(MaxNodes + 1) :
          (/\ ~AUTO_SCALE
           /\ DictHas(nodes, n)
           /\ DeleteNode(MaxNodes + 1, n, TRUE, NoFails, TRUE))
          => LET alloc == NodeAllocations(DictDel(nodes, n), DictDel(cached_status, n))
                 TooLarge(e) == \A i \in DOMAIN alloc : alloc[i].v.available < e.cpu_request
                 tried == SortedByCpu(SelectSeq(Displaced(n), LAMBDA e : ~TooLarge(e)))
                 Rescheduled(e) == e \in Entries(last'.rescheduled)
                 Records(m, e) ==
                     /\ DictHas(DictGetOr(cached_status', m, EmptyDict), e.pod_id)
                     /\ DictGet(DictGet(cached_status', m), e.pod_id).cpu_request
                           = e.cpu_request
                 Before(took, m, k) ==
                     SeqSum([j \in 1..(k - 1) |->
                                IF took[j] = m THEN tried[j].cpu_request ELSE 0])
                 Fits(took, k) ==
                     \E i \in DOMAIN alloc :
                        alloc[i].v.available - Before(took, alloc[i].k, k)
                           >= tried[k].cpu_request
             IN /\ \A e \in Entries(Displaced(n)) :
                      TooLarge(e) =>
                         /\ e \in Entries(last'.failed)
                         /\ DictHas(pending_pods', e.pod_id)
                         /\ DictGet(pending_pods', e.pod_id).origin_node = n
                         /\ \A m \in list_nodes' :
                               DictHas(DictGetOr(cached_status', m, EmptyDict), e.pod_id)
                               => DictHas(DictGetOr(cached_status, m, EmptyDict), e.pod_id)
                /\ \E took \in [DOMAIN tried -> list_nodes' \cup {None}] :
                      \A k \in DOMAIN tried :
                         /\ Rescheduled(tried[k]) <=> took[k] # None
                         /\ took[k] # None => Records(took[k], tried[k])
                         /\ Rescheduled(tried[k]) <=> Fits(took, k)
                /\ \A i, j \in DOMAIN last'.rescheduled :
                      i < j => last'.rescheduled[i].cpu_request
                                  <= last'.rescheduled[j].cpu_request]_vars

\* C39: a pod recorded in the published status stays recorded on its node
\* as long as the node stays registered (no pod is deleted here): no step,
\* and no write of a metrics poll in particular, erases it.
C39_RecordedPodStaysRecorded ==
    [][\A n \in NodeIds, p \in PodIds :
          (p \in PodsOn(n) /\ n \in list_nodes /\ n \in list_nodes')
          => DictHas(DictGetOr(cached_status', n, EmptyDict), p)]_vars

\* C40: on every worker the cpu requests of the hosted pods sum to at most
\* the capacity of the node, however add-pod requests are interleaved.
C40_WorkerWithinCapacity ==
    \A n \in DOMAIN workers : FnSum(workers[n].pods) <= workers[n].capacity

====
